---------------------------- MODULE Spec2Model ----------------------------
(***************************************************************************)
(* Model of the ingestion side of stt-audio-preprocess:                    *)
(*   - AudioProcessingWorker.process_blob      (src/src/queue_listener.py) *)
(*   - QueueListener  (push strategy)          (src/src/queue_listener.py) *)
(*   - PollingListener (pull strategy)         (src/src/queue_listener.py) *)
(*   - BlobInfo / BlobHandler                  (src/src/blob_handler.py)   *)
(*                                                                         *)
(* Blob names, message subjects and paths are sequences of tokens: the     *)
(* separators "/", "." , "/containers/" and "/blobs/" are tokens of their  *)
(* own, so that rsplit / split / startswith are computed, not assumed.     *)
(***************************************************************************)
EXTENDS Integers, Sequences, FiniteSets, TLC

VARIABLES
    delete_source,    \* settings.azure.delete_source (fixed per deployment)
    processing_mode,  \* settings.processing_mode     (fixed per deployment)
    storage,          \* blob storage: <<container, name>> -> content
    processed_count,  \* AudioProcessingWorker.processed_count, per worker
    error_count,      \* AudioProcessingWorker.error_count, per worker
    attempt,          \* record of the latest process_blob call (history)
    queue,            \* storage queue: message -> absent/visible/hidden/deleted
    q_pc,             \* QueueListener.run position
    q_running,        \* QueueListener._running
    q_batch,          \* messages of the current cycle not yet iterated
    q_cycle,          \* per message: what the current cycle did with it (history)
    q_hist,           \* per message: what all cycles did with it (history)
    p_pc,             \* PollingListener.run position
    p_running,        \* PollingListener._running
    p_blobs,          \* listing of the current scan not yet iterated
    p_processed,      \* PollingListener._processed_blobs
    p_hist,           \* pull strategy history (see PollHist0)
    life,             \* lifespan of main.py: phase, background task, stop calls
    pipe,             \* one run of AudioProcessor.process: position, buffer, stats
    fn,               \* one call of a pipeline function: arguments and result
    vad,              \* SileroVAD: the class attributes and the calling threads
    api               \* api.py: the requests on the module-level worker, /stats

vars == <<delete_source, processing_mode, storage, processed_count, error_count,
          attempt, queue, q_pc, q_running, q_batch, q_cycle, q_hist,
          p_pc, p_running, p_blobs, p_processed, p_hist, life, pipe, fn, vad, api>>

\* the state of the ingestion side: the Worker, the two listeners, the storage
ingest_vars ==
    <<delete_source, processing_mode, storage, processed_count, error_count,
      attempt, queue, q_pc, q_running, q_batch, q_cycle, q_hist,
      p_pc, p_running, p_blobs, p_processed, p_hist>>

-----------------------------------------------------------------------------
(* Bounds of the model *)

\* process_blob calls of the queue listener's Worker per behaviour (caps its
\* two counters)
MaxAttempts == 2
\* the same for the polling listener's Worker
MaxPollAttempts == 3
\* messages placed in the queue
MaxQueue == 2
\* samples of a buffer handed to _normalize
MaxBuffer == 3
\* samples of a buffer handed to _compress_silences
CompressLen == 6
\* speech segments of one buffer
MaxSegments == 3
\* size threshold of the handled set, scaled down from the 10000 of
\* queue_listener.py:313 so that the clear happens within the bounds
ClearThreshold == 1

-----------------------------------------------------------------------------
(* Configuration: src/src/config.py defaults *)

container_input == "audio-input"
container_output == "audio-output"
folder_input == <<"incoming">>
folder_output == <<"processed">>
supported_extensions ==
    {"wav", "mp3", "m4a", "aac", "flac", "ogg", "opus", "wma", "webm", "mp4"}

\* str.lower() on the extension tokens the model uses
Lower(tok) ==
    CASE tok = "WAV" -> "wav"
      [] tok = "MP3" -> "mp3"
      [] tok = "TXT" -> "txt"
      [] OTHER -> tok

-----------------------------------------------------------------------------
(* Token-sequence string helpers *)

Contains(s, tok) == \E i \in 1..Len(s) : s[i] = tok

FirstIndex(s, tok) ==
    CHOOSE i \in 1..Len(s) : s[i] = tok /\ \A j \in 1..(i - 1) : s[j] # tok

LastIndex(s, tok) ==
    CHOOSE i \in 1..Len(s) : s[i] = tok /\ \A j \in (i + 1)..Len(s) : s[j] # tok

\* s.split(tok, 1): one or two parts
SplitOnce(s, tok) ==
    IF Contains(s, tok)
    THEN <<SubSeq(s, 1, FirstIndex(s, tok) - 1),
           SubSeq(s, FirstIndex(s, tok) + 1, Len(s))>>
    ELSE <<s>>

\* s.rsplit(tok, 1): one or two parts
RSplitOnce(s, tok) ==
    IF Contains(s, tok)
    THEN <<SubSeq(s, 1, LastIndex(s, tok) - 1),
           SubSeq(s, LastIndex(s, tok) + 1, Len(s))>>
    ELSE <<s>>

Last(parts) == parts[Len(parts)]

\* s.startswith(prefix)
StartsWith(s, prefix) ==
    Len(prefix) <= Len(s) /\ SubSeq(s, 1, Len(prefix)) = prefix

\* s.rstrip("/")
RStripSlash(s) ==
    IF s # <<>> /\ s[Len(s)] = "/" THEN SubSeq(s, 1, Len(s) - 1) ELSE s

\* the tokens of a one-token-or-empty string joined: the extension as one token
Joined(s) == IF s = <<>> THEN "" ELSE s[Len(s)]

-----------------------------------------------------------------------------
(* BlobInfo: src/src/blob_handler.py *)

BlobInfo(container, name) == [container |-> container, name |-> name]

full_path(b) == <<b.container, "/">> \o b.name

filename(b) ==
    IF Contains(b.name, "/") THEN Last(RSplitOnce(b.name, "/")) ELSE b.name

\* a stem that keeps the directories of the name
StemOfPath(b) ==
    IF Contains(b.name, ".") THEN RSplitOnce(b.name, ".")[1] ELSE b.name

stem(b) ==
    IF Contains(filename(b), ".")
    THEN RSplitOnce(filename(b), ".")[1]
    ELSE filename(b)

\* the "." + lowercased last dot-part of the whole name, as list_blobs and
\* _parse_message compute it ("" when the name holds no dot)
DotExt(name) ==
    IF Contains(name, ".") THEN Lower(Joined(Last(RSplitOnce(name, ".")))) ELSE ""


-----------------------------------------------------------------------------
(* Blob storage: the universe of blobs of the model *)

NoBlob == "absent"

NameA == <<"incoming", "/", "a", ".", "wav">>
NameB == <<"incoming", "/", "b", ".", "MP3">>
NameOutside == <<"archive", "/", "c", ".", "wav">>
NameTxt == <<"incoming", "/", "notes", ".", "txt">>
\* two names that differ from NameA in the directory only and in the
\* extension only
NameSub == <<"incoming", "/", "sub", "/", "a", ".", "wav">>
NameExt == <<"incoming", "/", "a", ".", "mp3">>

ItemA == BlobInfo(container_input, NameA)
ItemB == BlobInfo(container_input, NameB)
ItemOutside == BlobInfo(container_input, NameOutside)
ItemTxt == BlobInfo(container_input, NameTxt)
ItemOther == BlobInfo("other-container", NameA)
ItemSub == BlobInfo(container_input, NameSub)
ItemExt == BlobInfo(container_input, NameExt)

SourceItems == {ItemA, ItemB, ItemOutside, ItemTxt, ItemOther, ItemSub, ItemExt}

Key(b) == <<b.container, b.name>>

\* queue_listener.py:65: folder_output.rstrip("/") + "/" if folder_output else ""
output_folder ==
    IF folder_output # <<>> THEN RStripSlash(folder_output) \o <<"/">> ELSE <<>>

\* queue_listener.py:66: f"{output_folder}{blob_info.stem}.wav"
output_name(b) == output_folder \o stem(b) \o <<".", "wav">>

OutputKey(b) == <<container_output, output_name(b)>>

StoreKeys == {Key(b) : b \in SourceItems} \cup {OutputKey(b) : b \in SourceItems}

\* what the decoders of AudioProcessor._load_audio can interpret
Decodable(content) == content \in {"pcmA", "pcmB", "pcmC"}

\* the bytes AudioProcessor.process returns for a decodable input
Wav(content) ==
    CASE content = "pcmA" -> "wavA"
      [] content = "pcmB" -> "wavB"
      [] content = "pcmC" -> "wavC"
      [] OTHER -> "none"

-----------------------------------------------------------------------------
(* AudioProcessingWorker.process_blob: src/src/queue_listener.py:46-104 *)

\* the Worker of each listener (queue_listener.py:124, 280) and the
\* module-level one (line 343)
Workers == {"queue_listener", "polling_listener", "worker"}

\* one fault of the collaborators per attempt: a transient download error, a
\* speech-model load failure, an upload error, a failing delete
Faults == {"none", "download", "model", "upload", "delete"}

NoExc == "none"
NoPath == <<>>

\* blob_handler.download_blob (lines 56-59)
DownloadStep(b, fault, st) ==
    LET base == [exc |-> NoExc, calls |-> <<"download">>, data |-> "none",
                 processed |-> "none", uploaded |-> "none", out |-> NoPath,
                 delete_ok |-> FALSE, st |-> st]
    IN  IF fault = "download"
        THEN [base EXCEPT !.exc = "TransientIOFailure"]
        ELSE IF Key(b) \notin DOMAIN st \/ st[Key(b)] = NoBlob
        THEN [base EXCEPT !.exc = "BlobNotFound"]
        ELSE [base EXCEPT !.data = st[Key(b)]]

\* processor.process (line 62): decode failure and model load failure raise
ProcessStep(r, b, fault) ==
    IF r.exc # NoExc THEN r
    ELSE LET c == [r EXCEPT !.calls = Append(r.calls, "process")]
         IN  IF ~Decodable(r.data)
             THEN [c EXCEPT !.exc = "UnsupportedFormat"]
             ELSE IF fault = "model"
             THEN [c EXCEPT !.exc = "ModelUnavailable"]
             ELSE [c EXCEPT !.processed = Wav(r.data)]

\* the upload issued whatever the earlier steps did
UploadStepUnguarded(r, b, fault) ==
    LET c == [r EXCEPT !.calls = Append(r.calls, "upload"),
                       !.uploaded = r.processed]
    IN  IF fault = "upload"
        THEN [c EXCEPT !.exc = "UploadFailed"]
        ELSE [c EXCEPT !.st = [r.st EXCEPT ![OutputKey(b)] = r.processed],
                       !.out = <<container_output, "/">> \o output_name(b)]

\* blob_handler.upload_blob (lines 68-74; blob_handler.py:78-93, overwrite=True)
UploadStep(r, b, fault) ==
    IF r.exc # NoExc THEN r
    ELSE LET c == [r EXCEPT !.calls = Append(r.calls, "upload"),
                            !.uploaded = r.processed]
         IN  IF fault = "upload"
             THEN [c EXCEPT !.exc = "UploadFailed"]
             ELSE [c EXCEPT !.st = [r.st EXCEPT ![OutputKey(b)] = r.processed],
                            !.out = <<container_output, "/">> \o output_name(b)]

\* a delete whose failure is raised to the caller
DeleteBlobRaising(r, b, fault) ==
    IF fault = "delete" \/ Key(b) \notin DOMAIN r.st \/ r.st[Key(b)] = NoBlob
    THEN [r EXCEPT !.delete_ok = FALSE, !.exc = "DeleteFailed"]
    ELSE [r EXCEPT !.delete_ok = TRUE, !.st = [r.st EXCEPT ![Key(b)] = NoBlob]]

\* blob_handler.delete_blob (blob_handler.py:95-103): any failure is logged and
\* answered with False, never raised
delete_blob(r, b, fault) ==
    IF fault = "delete" \/ Key(b) \notin DOMAIN r.st \/ r.st[Key(b)] = NoBlob
    THEN [r EXCEPT !.delete_ok = FALSE]
    ELSE [r EXCEPT !.delete_ok = TRUE, !.st = [r.st EXCEPT ![Key(b)] = NoBlob]]

\* the source deleted in a finally clause: also when an earlier step raised
DeleteStepFinally(r, b, fault, ds) ==
    IF ds
    THEN delete_blob([r EXCEPT !.calls = Append(r.calls, "delete")], b, fault)
    ELSE r

\* lines 76-79: if settings.azure.delete_source: delete_blob(...)
DeleteStep(r, b, fault, ds) ==
    IF r.exc # NoExc THEN r
    ELSE IF ds
    THEN delete_blob([r EXCEPT !.calls = Append(r.calls, "delete")], b, fault)
    ELSE r

\* the try body, lines 54-79
TryBody(b, fault, st, ds) ==
    DeleteStep(UploadStep(ProcessStep(DownloadStep(b, fault, st), b, fault),
                          b, fault),
               b, fault, ds)

\* ProcessingResult (lines 28-36); None is "None", NoPath
ProcessingResult(success, input_path, output_path, has_stats, error) ==
    [success |-> success, input_path |-> input_path, output_path |-> output_path,
     has_stats |-> has_stats, error |-> error]

NoResult == ProcessingResult(FALSE, <<>>, NoPath, FALSE, "None")

NoAttempt ==
    [n |-> 0, worker |-> "none", item |-> BlobInfo("", <<>>), fault |-> "none",
     exc |-> NoExc, calls |-> <<>>, processed |-> "none", uploaded |-> "none",
     delete_ok |-> FALSE, returned |-> FALSE, raised |-> FALSE,
     result |-> NoResult, pre_processed |-> 0, pre_error |-> 0,
     pre_source |-> NoBlob, undecodable |-> {}, again |-> FALSE]

\* what the history keeps of a call, whichever way it ends; undecodable: the
\* items a call has failed to decode so far; again: the item of this call had
\* failed to decode in an earlier call
AttemptOf(w, b, fault, r) ==
    [n |-> attempt.n + 1, worker |-> w, item |-> b, fault |-> fault,
     exc |-> r.exc, calls |-> r.calls, processed |-> r.processed,
     uploaded |-> r.uploaded, delete_ok |-> r.delete_ok,
     returned |-> FALSE, raised |-> FALSE, result |-> NoResult,
     pre_processed |-> processed_count[w], pre_error |-> error_count[w],
     pre_source |-> IF Key(b) \in DOMAIN storage THEN storage[Key(b)] ELSE NoBlob,
     undecodable |-> IF r.exc = "UnsupportedFormat"
                     THEN attempt.undecodable \cup {Key(b)}
                     ELSE attempt.undecodable,
     again |-> Key(b) \in attempt.undecodable]

\* the success counted as a failure as well
OnSuccessCountsBoth(w, b, fault, r) ==
    /\ processed_count' = [processed_count EXCEPT ![w] = @ + 1]
    /\ error_count' = [error_count EXCEPT ![w] = @ + 1]
    /\ attempt' = [AttemptOf(w, b, fault, r) EXCEPT
                      !.returned = TRUE,
                      !.result = ProcessingResult(TRUE, full_path(b), r.out,
                                                  TRUE, "None")]

\* lines 81-92
OnSuccess(w, b, fault, r) ==
    /\ processed_count' = [processed_count EXCEPT ![w] = @ + 1]
    /\ UNCHANGED error_count
    /\ attempt' = [AttemptOf(w, b, fault, r) EXCEPT
                      !.returned = TRUE,
                      !.result = ProcessingResult(TRUE, full_path(b), r.out,
                                                  TRUE, "None")]

\* the except clause without its count of the failure
OnExceptionUncounted(w, b, fault, r) ==
    /\ UNCHANGED <<processed_count, error_count>>
    /\ attempt' = [AttemptOf(w, b, fault, r) EXCEPT
                      !.returned = TRUE,
                      !.result = ProcessingResult(FALSE, full_path(b), NoPath,
                                                  FALSE, r.exc)]

\* the failed result keeping the stats of a pipeline run that had returned
OnExceptionKeepsStats(w, b, fault, r) ==
    /\ error_count' = [error_count EXCEPT ![w] = @ + 1]
    /\ UNCHANGED processed_count
    /\ attempt' = [AttemptOf(w, b, fault, r) EXCEPT
                      !.returned = TRUE,
                      !.result = ProcessingResult(FALSE, full_path(b), NoPath,
                                                  r.processed # "none", r.exc)]

\* lines 94-104: except Exception as e
OnException(w, b, fault, r) ==
    /\ error_count' = [error_count EXCEPT ![w] = @ + 1]
    /\ UNCHANGED processed_count
    /\ attempt' = [AttemptOf(w, b, fault, r) EXCEPT
                      !.returned = TRUE,
                      !.result = ProcessingResult(FALSE, full_path(b), NoPath,
                                                  FALSE, r.exc)]

process_blob(w, b, fault) ==
    LET r == TryBody(b, fault, storage, delete_source)
    IN  /\ storage' = r.st
        /\ IF r.exc = NoExc
           THEN OnSuccess(w, b, fault, r)
           ELSE OnException(w, b, fault, r)

\* the counters are capped by the bound on the calls of a behaviour
CanAttempt(w) ==
    processed_count[w] + error_count[w] <
        (IF w = "polling_listener" THEN MaxPollAttempts ELSE MaxAttempts)

-----------------------------------------------------------------------------
(* Queue messages: the contents the model places in the queue *)

\* the subject of a creation event:
\* /blobServices/default/containers/{container}/blobs/{blob}
Subject(container, name) ==
    <<"/blobServices/default", "/containers/", container, "/blobs/">> \o name

EventGrid(enc, type, subject) ==
    [enc |-> enc, valid |-> TRUE, obj |-> [eventType |-> type, subject |-> subject]]

Simple(enc, container, name) ==
    [enc |-> enc, valid |-> TRUE, obj |-> [container |-> container, blob |-> name]]

BlobCreated == "Microsoft.Storage.BlobCreated"

\* enc: "base64" (the content is base64 of the text), "raw" (the content is the
\* text and is no base64), "raw_decodable" (the content is the text, and
\* base64.b64decode(...).decode('utf-8') of it happens to succeed)
MsgContent(id) ==
    CASE id = "ev_a" -> EventGrid("base64", BlobCreated, Subject(container_input, NameA))
      [] id = "ev_other_container" ->
            EventGrid("base64", BlobCreated, Subject("other-container", NameA))
      [] id = "ev_outside_prefix" ->
            EventGrid("raw", BlobCreated, Subject(container_input, NameOutside))
      [] id = "ev_txt" -> EventGrid("raw", BlobCreated, Subject(container_input, NameTxt))
      [] id = "ev_deleted" ->
            EventGrid("raw", "Microsoft.Storage.BlobDeleted", Subject(container_input, NameA))
      [] id = "ev_bad_subject" ->
            EventGrid("raw", BlobCreated, <<"/blobServices/default", "/containers/", container_input>>)
      [] id = "min_a" -> Simple("raw", container_input, NameA)
      [] id = "min_other_container" -> Simple("base64", "other-container", NameA)
      [] id = "min_outside_prefix" -> Simple("raw", container_input, NameOutside)
      [] id = "min_txt" -> Simple("raw", container_input, NameTxt)
      [] id = "min_a_decodable" -> Simple("raw_decodable", container_input, NameA)
      [] id = "json_other" -> [enc |-> "raw", valid |-> TRUE, obj |-> [foo |-> "bar"]]
      [] OTHER -> [enc |-> "raw", valid |-> FALSE, obj |-> <<>>]

MsgIds ==
    {"ev_a", "ev_other_container", "ev_outside_prefix", "ev_txt",
     "ev_deleted", "ev_bad_subject", "min_a", "min_other_container",
     "min_outside_prefix", "min_txt", "min_a_decodable", "json_other", "not_json"}

-----------------------------------------------------------------------------
(* QueueListener._parse_message: src/src/queue_listener.py:146-209 *)

None == BlobInfo("None", <<>>)

\* a one-token string as that token
Str(s) == IF Len(s) = 1 THEN s[1] ELSE ""

\* lines 149-155: base64 decoding falls back to the raw content when it raises;
\* json.loads of what is no JSON raises, and the except of line 207 answers None
Decoded(msg) ==
    IF msg.enc = "raw_decodable"
    THEN [valid |-> FALSE, obj |-> <<>>]
    ELSE [valid |-> msg.valid, obj |-> msg.obj]

\* the container compared, the folder forgotten
InInputContainer(container, blob_name) == container = container_input

\* lines 175-180: the configured input container and folder
InInputLocation(container, blob_name) ==
    /\ container = container_input
    /\ (folder_input # <<>> => StartsWith(blob_name, folder_input))

\* no filter on the extension
AnyExtension(blob_name) == TRUE

\* lines 182-185
ExtensionSupported(blob_name) == DotExt(blob_name) \in supported_extensions

\* lines 159-160
IsCreation(data) == data.eventType = BlobCreated

\* lines 158-193
ParseEventGrid(data) ==
    IF ~IsCreation(data) THEN None
    ELSE LET subject == IF "subject" \in DOMAIN data THEN data.subject ELSE <<>>
             parts == SplitOnce(subject, "/containers/")
         IN  IF Len(parts) # 2 THEN None
             ELSE LET container_and_blob == SplitOnce(parts[2], "/blobs/")
                  IN  IF Len(container_and_blob) # 2 THEN None
                      ELSE LET container == Str(container_and_blob[1])
                               blob_name == container_and_blob[2]
                           IN  IF ~InInputLocation(container, blob_name) THEN None
                               ELSE IF ~ExtensionSupported(blob_name) THEN None
                               ELSE BlobInfo(container, blob_name)

\* lines 195-203
ParseSimple(data) == BlobInfo(data.container, data.blob)

_parse_message(msg) ==
    LET d == Decoded(msg)
    IN  IF ~d.valid THEN None
        ELSE IF "eventType" \in DOMAIN d.obj THEN ParseEventGrid(d.obj)
        ELSE IF "container" \in DOMAIN d.obj /\ "blob" \in DOMAIN d.obj
        THEN ParseSimple(d.obj)
        ELSE None

-----------------------------------------------------------------------------
(* QueueListener: src/src/queue_listener.py:211-263 *)

\* line 211: max_messages: int = 10
max_messages == 10

\* received: the message is of the batch of the cycle; invoked: the Worker
\* calls made for it; deletes: the delete_message calls made for it; ack: how
\* the delete_message call ended; verdict: what the loop body made of it;
\* counted: by how much the Worker's counters moved while it was handled
CycleEntry0 ==
    [received |-> FALSE, invoked |-> 0, deletes |-> 0, ack |-> "none",
     verdict |-> "none", counted |-> 0]

Total(w, processed, errors) == processed[w] + errors[w]

\* succeeded: an earlier handling of the message succeeded; redo: how the latest
\* fault-free handling after that ended; redo_ack: it was followed by a delete
\* of the message; out: the bytes under the destination name after the first
\* success; redo_out: the same after the latest fault-free handling
QueueHist0 ==
    [succeeded |-> FALSE, redo |-> "none", redo_ack |-> FALSE,
     out |-> "none", redo_out |-> "none"]

\* the message deleted whatever the result
AckAlways(result) == TRUE

\* line 233: if result.success
AckAfter(result) == result.success

\* a failed message handled again at once
RetryInPlace(batch, result) == IF result.success THEN Tail(batch) ELSE batch

\* the batch given up when a message fails
HaltOnFailure(batch, result) == IF result.success THEN Tail(batch) ELSE <<>>

\* the async for of line 221 goes on to the next message
RestOfBatch(batch, result) == Tail(batch)

\* client.delete_message (lines 234, 241): the message leaves the queue, or the
\* call raises and the exception ends process_messages
delete_message(id, ack_ok, batch_rest) ==
    IF ack_ok
    THEN /\ queue' = [queue EXCEPT ![id] = "deleted"]
         /\ q_batch' = batch_rest
         /\ q_pc' = "dispatch"
    ELSE /\ UNCHANGED queue
         /\ q_batch' = <<>>
         /\ q_pc' = "sleep"

\* lines 245-248
QueueRun ==
    /\ processing_mode = "queue"
    /\ q_pc = "init"
    /\ q_running' = TRUE
    /\ q_pc' = "loop"
    /\ UNCHANGED <<vad, api, life, pipe, fn, delete_source, processing_mode, storage, processed_count,
                   error_count, attempt, queue, q_batch, q_cycle, q_hist,
                   p_pc, p_running, p_blobs, p_processed, p_hist>>

\* run returning as soon as the flag is found cleared, wherever run is
QueueExitAtOnce ==
    /\ q_pc \in {"loop", "dispatch", "sleep"}
    /\ ~q_running
    /\ q_pc' = "done"
    /\ UNCHANGED <<vad, api, life, pipe, fn, delete_source, processing_mode, storage, processed_count,
                   error_count, attempt, queue, q_running, q_batch, q_cycle,
                   q_hist, p_pc, p_running, p_blobs, p_processed, p_hist>>

\* line 250, the loop condition found false
QueueExit ==
    /\ q_pc = "loop"
    /\ ~q_running
    /\ q_pc' = "done"
    /\ UNCHANGED <<vad, api, life, pipe, fn, delete_source, processing_mode, storage, processed_count,
                   error_count, attempt, queue, q_running, q_batch, q_cycle,
                   q_hist, p_pc, p_running, p_blobs, p_processed, p_hist>>

\* the queue hands its messages out in the order it holds them
QueueOrder ==
    <<"ev_a", "min_a", "ev_other_container", "ev_outside_prefix", "ev_txt",
      "ev_deleted", "ev_bad_subject", "min_other_container", "min_outside_prefix",
      "min_txt", "min_a_decodable", "json_other", "not_json">>

\* client.receive_messages: the visible messages, at most max_messages of them
receive_messages(q, limit) ==
    LET visible == SelectSeq(QueueOrder, LAMBDA id : q[id] = "visible")
    IN  SubSeq(visible, 1, IF Len(visible) < limit THEN Len(visible) ELSE limit)

\* lines 213-220: the visible messages are received and hidden for the
\* visibility timeout; the call may raise, which run catches (lines 255-256)
QueueReceive ==
    /\ q_pc = "loop"
    /\ q_running
    /\ \E ok \in BOOLEAN :
         IF ok
         THEN LET batch == receive_messages(queue, max_messages)
                  got == {batch[i] : i \in 1..Len(batch)}
              IN  /\ q_batch' = batch
                  /\ queue' = [id \in MsgIds |->
                                 IF id \in got THEN "hidden" ELSE queue[id]]
                  /\ q_cycle' = [id \in MsgIds |->
                                   [CycleEntry0 EXCEPT !.received = (id \in got)]]
                  /\ q_pc' = "dispatch"
         ELSE /\ q_pc' = "sleep"
              /\ UNCHANGED <<queue, q_batch, q_cycle>>
    /\ UNCHANGED <<vad, api, life, pipe, fn, delete_source, processing_mode, storage, processed_count,
                   error_count, attempt, q_running, q_hist,
                   p_pc, p_running, p_blobs, p_processed, p_hist>>

\* lines 239-241: no blob_info, the message is deleted
QueueReject(id, ack_ok) ==
    /\ q_cycle' = [q_cycle EXCEPT ![id].deletes = @ + 1,
                                  ![id].ack = IF ack_ok THEN "ok" ELSE "raised",
                                  ![id].verdict = "rejected"]
    /\ delete_message(id, ack_ok, Tail(q_batch))
    /\ UNCHANGED <<storage, processed_count, error_count, attempt, q_hist>>

\* the history of a handling of message id by the Worker
HistAfter(h, id, b, fault, result, acked, out) ==
    IF ~h.succeeded
    THEN IF result.success
         THEN [h EXCEPT !.succeeded = TRUE, !.out = out]
         ELSE h
    ELSE IF fault = "none"
    THEN [h EXCEPT !.redo = IF result.success THEN "success" ELSE "failure",
                   !.redo_ack = acked, !.redo_out = out]
    ELSE h

\* lines 224-238: the Worker is invoked, then the message is deleted or left
QueueDispatch(id, b, fault, ack_ok) ==
    /\ CanAttempt("queue_listener")
    /\ process_blob("queue_listener", b, fault)
    /\ LET result == attempt'.result
           acked == AckAfter(result)
       IN  /\ q_cycle' = [q_cycle EXCEPT
                            ![id].invoked = @ + 1,
                            ![id].deletes = IF acked THEN @ + 1 ELSE @,
                            ![id].ack = IF ~acked THEN @
                                        ELSE IF ack_ok THEN "ok" ELSE "raised",
                            ![id].counted =
                                @ + Total("queue_listener", processed_count', error_count')
                                  - Total("queue_listener", processed_count, error_count),
                            ![id].verdict = IF result.success THEN "success" ELSE "failure"]
           /\ q_hist' = [q_hist EXCEPT
                           ![id] = HistAfter(@, id, b, fault, result, acked,
                                             storage'[OutputKey(b)])]
           /\ IF acked
              THEN delete_message(id, ack_ok, RestOfBatch(q_batch, result))
              ELSE /\ UNCHANGED queue
                   /\ q_batch' = RestOfBatch(q_batch, result)
                   /\ q_pc' = "dispatch"

\* line 222: blob_info = self._parse_message(message.content), for each of
\* the messages
ParsedMessage == [id \in MsgIds |-> _parse_message(MsgContent(id))]

\* one iteration of the loop of line 221
QueueHandle ==
    /\ q_pc = "dispatch"
    /\ q_batch # <<>>
    /\ \E id \in {Head(q_batch)} :
         \E blob_info \in {ParsedMessage[id]} :
           \E ack_ok \in BOOLEAN :
             IF blob_info # None
             THEN \E fault \in Faults : QueueDispatch(id, blob_info, fault, ack_ok)
             ELSE QueueReject(id, ack_ok)
    /\ UNCHANGED <<vad, api, life, pipe, fn, delete_source, processing_mode, q_running,
                   p_pc, p_running, p_blobs, p_processed, p_hist>>

\* line 243 and lines 253-258: the batch is exhausted, run goes to sleep
QueueCycleEnd ==
    /\ q_pc = "dispatch"
    /\ q_batch = <<>>
    /\ q_pc' = "sleep"
    /\ UNCHANGED <<vad, api, life, pipe, fn, delete_source, processing_mode, storage, processed_count,
                   error_count, attempt, queue, q_running, q_batch, q_cycle,
                   q_hist, p_pc, p_running, p_blobs, p_processed, p_hist>>

\* line 258: the sleep ends (and with it what the history keeps of the cycle)
QueueWake ==
    /\ q_pc = "sleep"
    /\ q_pc' = "loop"
    /\ q_cycle' = [id \in MsgIds |-> CycleEntry0]
    /\ UNCHANGED <<vad, api, life, pipe, fn, delete_source, processing_mode, storage, processed_count,
                   error_count, attempt, queue, q_running, q_batch,
                   q_hist, p_pc, p_running, p_blobs, p_processed, p_hist>>

\* lines 260-263: self._running = False, whatever run is doing, also before
\* run has begun and after it has returned
queue_listener_stop ==
    /\ q_running' = FALSE
    /\ UNCHANGED <<delete_source, processing_mode, storage, processed_count,
                   error_count, attempt, queue, q_pc, q_batch, q_cycle,
                   q_hist, p_pc, p_running, p_blobs, p_processed, p_hist>>

QueueStop ==
    /\ queue_listener_stop
    /\ UNCHANGED <<vad, api, life, pipe, fn>>

\* the queue service: the messages of a receive share its visibility timeout
\* (line 217) and become visible again together when it elapses; the listener
\* sees that at its next receive only, so the step is taken between cycles
VisibilityTimeout ==
    /\ q_pc = "sleep"
    /\ \E id \in MsgIds : queue[id] = "hidden"
    /\ queue' = [id \in MsgIds |-> IF queue[id] = "hidden" THEN "visible" ELSE queue[id]]
    /\ UNCHANGED <<vad, api, life, pipe, fn, delete_source, processing_mode, storage, processed_count,
                   error_count, attempt, q_pc, q_running, q_batch, q_cycle,
                   q_hist, p_pc, p_running, p_blobs, p_processed, p_hist>>

-----------------------------------------------------------------------------
(* BlobHandler.list_blobs: src/src/blob_handler.py:105-129 *)

\* the order in which the storage service lists names
ListingOrder ==
    <<ItemOutside, ItemA, ItemExt, ItemB, ItemTxt, ItemSub, ItemOther>>

Listed(b, st, container, prefix, extensions) ==
    /\ st[Key(b)] # NoBlob
    /\ b.container = container
    /\ StartsWith(b.name, prefix)
    /\ (extensions # {} => DotExt(b.name) \in extensions)

list_blobs(st, container, prefix, extensions) ==
    SelectSeq(ListingOrder, LAMBDA b : Listed(b, st, container, prefix, extensions))

-----------------------------------------------------------------------------
(* PollingListener: src/src/queue_listener.py:279-337 *)

\* succ: the paths handled with success since the handled set was last cleared;
\* failed: the paths whose latest handling failed; last: what the latest
\* iteration of the scan loop met and did
PollHist0 ==
    [succ |-> {}, failed |-> {},
     last |-> [path |-> <<>>, kind |-> "none", was_succ |-> FALSE, was_failed |-> FALSE]]

\* the handled set never consulted
NeverProcessed(b, processed) == FALSE

\* line 298: if blob_info.full_path in self._processed_blobs: continue
AlreadyProcessed(b, processed) == full_path(b) \in processed

\* the path marked whatever the result
MarkAlways(processed, b, result) == processed \cup {full_path(b)}

\* lines 308-310
MarkProcessed(processed, b, result) ==
    IF result.success THEN processed \cup {full_path(b)} ELSE processed

\* the set made to fit by dropping one path
CleanupPartial(processed) ==
    IF Cardinality(processed) > ClearThreshold
    THEN processed \ {CHOOSE path \in processed : TRUE}
    ELSE processed

\* lines 312-314
Cleanup(processed) ==
    IF Cardinality(processed) > ClearThreshold THEN {} ELSE processed

\* lines 318-322
PollRun ==
    /\ processing_mode = "polling"
    /\ p_pc = "init"
    /\ p_running' = TRUE
    /\ p_pc' = "loop"
    /\ UNCHANGED <<vad, api, life, pipe, fn, delete_source, processing_mode, storage, processed_count,
                   error_count, attempt, queue, q_pc, q_running, q_batch,
                   q_cycle, q_hist, p_blobs, p_processed, p_hist>>

\* line 324, the loop condition found false
PollExit ==
    /\ p_pc = "loop"
    /\ ~p_running
    /\ p_pc' = "done"
    /\ UNCHANGED <<vad, api, life, pipe, fn, delete_source, processing_mode, storage, processed_count,
                   error_count, attempt, queue, q_pc, q_running, q_batch,
                   q_cycle, q_hist, p_running, p_blobs, p_processed, p_hist>>

\* lines 286-294: the listing is taken once per scan; the call may raise, which
\* run catches (lines 329-330)
PollScan ==
    /\ p_pc = "loop"
    /\ p_running
    /\ \E ok \in BOOLEAN :
         IF ok
         THEN /\ p_blobs' = list_blobs(storage, container_input, folder_input,
                                       supported_extensions)
              /\ p_pc' = "dispatch"
         ELSE /\ p_pc' = "sleep"
              /\ UNCHANGED p_blobs
    /\ UNCHANGED <<vad, api, life, pipe, fn, delete_source, processing_mode, storage, processed_count,
                   error_count, attempt, queue, q_pc, q_running, q_batch,
                   q_cycle, q_hist, p_running, p_processed, p_hist>>

\* lines 297-299
PollSkip(b) ==
    /\ p_hist' = [p_hist EXCEPT
                    !.last = [path |-> full_path(b), kind |-> "skipped",
                              was_succ |-> full_path(b) \in p_hist.succ,
                              was_failed |-> full_path(b) \in p_hist.failed]]
    /\ UNCHANGED <<storage, processed_count, error_count, attempt, p_processed>>

\* lines 301-314
PollDispatch(b, fault) ==
    /\ CanAttempt("polling_listener")
    /\ process_blob("polling_listener", b, fault)
    /\ LET result == attempt'.result
           marked == MarkProcessed(p_processed, b, result)
       IN  /\ p_processed' = Cleanup(marked)
           /\ p_hist' =
                [succ |-> IF Cleanup(marked) = {} /\ marked # {}
                          THEN {}
                          ELSE IF result.success
                          THEN p_hist.succ \cup {full_path(b)}
                          ELSE p_hist.succ,
                 failed |-> IF result.success
                            THEN p_hist.failed \ {full_path(b)}
                            ELSE p_hist.failed \cup {full_path(b)},
                 last |-> [path |-> full_path(b), kind |-> "dispatched",
                           was_succ |-> full_path(b) \in p_hist.succ,
                           was_failed |-> full_path(b) \in p_hist.failed]]

\* one iteration of the loop of line 296
PollHandle ==
    /\ p_pc = "dispatch"
    /\ p_blobs # <<>>
    /\ LET b == Head(p_blobs)
       IN  IF AlreadyProcessed(b, p_processed)
           THEN PollSkip(b)
           ELSE \E fault \in Faults : PollDispatch(b, fault)
    /\ p_blobs' = Tail(p_blobs)
    /\ UNCHANGED <<vad, api, life, pipe, fn, delete_source, processing_mode, queue, q_pc, q_running,
                   q_batch, q_cycle, q_hist, p_pc, p_running>>

\* line 316 and lines 327-332: the listing is exhausted, run goes to sleep
PollCycleEnd ==
    /\ p_pc = "dispatch"
    /\ p_blobs = <<>>
    /\ p_pc' = "sleep"
    /\ UNCHANGED <<vad, api, life, pipe, fn, delete_source, processing_mode, storage, processed_count,
                   error_count, attempt, queue, q_pc, q_running, q_batch,
                   q_cycle, q_hist, p_running, p_blobs, p_processed, p_hist>>

\* line 332: the sleep ends
PollWake ==
    /\ p_pc = "sleep"
    /\ p_pc' = "loop"
    /\ UNCHANGED <<vad, api, life, pipe, fn, delete_source, processing_mode, storage, processed_count,
                   error_count, attempt, queue, q_pc, q_running, q_batch,
                   q_cycle, q_hist, p_running, p_blobs, p_processed, p_hist>>

\* lines 334-337: self._running = False, whatever run is doing
polling_listener_stop ==
    /\ p_running' = FALSE
    /\ UNCHANGED <<delete_source, processing_mode, storage, processed_count,
                   error_count, attempt, queue, q_pc, q_running, q_batch,
                   q_cycle, q_hist, p_pc, p_blobs, p_processed, p_hist>>

PollStop ==
    /\ polling_listener_stop
    /\ UNCHANGED <<vad, api, life, pipe, fn>>

-----------------------------------------------------------------------------
-----------------------------------------------------------------------------
(* Arithmetic of the transform pipeline: src/src/audio_processor.py *)

\* int(a / b) of Python for b > 0: the quotient truncated towards zero
TruncDiv(a, b) == IF a >= 0 THEN a \div b ELSE -((-a) \div b)

\* math.ceil(a / b) for a >= 0, b > 0
CeilDiv(a, b) == (a + b - 1) \div b

RECURSIVE GCD(_, _)
GCD(a, b) == IF b = 0 THEN a ELSE GCD(b, a % b)

\* a non-negative rational, in lowest terms
Frac(n, d) == [n |-> n \div GCD(n, d), d |-> d \div GCD(n, d)]

FracMul(p, q) ==
    LET g1 == GCD(p.n, q.d)
        g2 == GCD(q.n, p.d)
    IN  [n |-> (p.n \div g1) * (q.n \div g2), d |-> (p.d \div g2) * (q.d \div g1)]

\* p / q for q > 0
FracDiv(p, q) == FracMul(p, [n |-> q.d, d |-> q.n])

\* the sign of a/b - c/d, by the integer parts and then the remainders
RECURSIVE FracCmp(_, _, _, _)
FracCmp(a, b, c, d) ==
    IF a \div b # c \div d THEN (IF a \div b < c \div d THEN -1 ELSE 1)
    ELSE IF a % b = 0 /\ c % d = 0 THEN 0
    ELSE IF a % b = 0 THEN -1
    ELSE IF c % d = 0 THEN 1
    ELSE FracCmp(d, c % d, b, a % b)

FracLess(p, q) == FracCmp(p.n, p.d, q.n, q.d) < 0

\* A float sample is kept exactly, as its sign and the square of its
\* magnitude: the gain of the normalization has a rational square
Sample(sgn, sq) == [sgn |-> sgn, sq |-> sq]

\* full scale (1.0) in the units of the integer samples of the model
AmpScale == 100

\* the float of an integer sample x over the denominator den
FloatOf(x, den) ==
    Sample(IF x < 0 THEN -1 ELSE IF x = 0 THEN 0 ELSE 1,
           Frac(x * x, den * den * AmpScale * AmpScale))

Floats(data, den) == [i \in 1..Len(data) |-> FloatOf(data[i], den)]

\* 0.99 ** 2
PeakLimitSq == [n |-> 9801, d |-> 10000]

\* the sum of samples[lo..hi], by halves
RECURSIVE SumRange(_, _, _)
SumRange(samples, lo, hi) ==
    IF lo > hi THEN 0
    ELSE IF lo = hi THEN samples[lo]
    ELSE SumRange(samples, lo, (lo + hi) \div 2)
             + SumRange(samples, (lo + hi) \div 2 + 1, hi)

Sum(samples) == SumRange(samples, 1, Len(samples))

\* np.sum(audio ** 2)
SumSq(data) == Sum([i \in 1..Len(data) |-> data[i] * data[i]])

\* (10 ** (target_dbfs / 20)) ** 2 = 10 ** (target_dbfs / 10), for the target
\* levels of the model (multiples of 10 dB)
RECURSIVE Pow10(_)
Pow10(k) == IF k = 0 THEN 1 ELSE 10 * Pow10(k - 1)

TargetGainSq(target_dbfs) ==
    IF target_dbfs >= 0
    THEN [n |-> Pow10(target_dbfs \div 10), d |-> 1]
    ELSE [n |-> 1, d |-> Pow10((-target_dbfs) \div 10)]

-----------------------------------------------------------------------------
(* AudioProcessor._normalize: src/src/audio_processor.py:338-355 *)

\* np.max(normalized): the largest sample, signs counted
SignedPeak(normalized) ==
    LET Above(a, b) ==
            \/ a.sgn > b.sgn
            \/ a.sgn = b.sgn /\ a.sgn = 1 /\ FracLess(b.sq, a.sq)
            \/ a.sgn = b.sgn /\ a.sgn = -1 /\ FracLess(a.sq, b.sq)
        top == CHOOSE i \in 1..Len(normalized) :
                   \A j \in 1..Len(normalized) : ~Above(normalized[j], normalized[i])
    IN  IF normalized[top].sgn = 1 THEN normalized[top].sq ELSE [n |-> 0, d |-> 1]

\* line 351: np.max(np.abs(normalized)), as its square
Peak(normalized) ==
    LET top == CHOOSE i \in 1..Len(normalized) :
                   \A j \in 1..Len(normalized) :
                       ~FracLess(normalized[i].sq, normalized[j].sq)
    IN  normalized[top].sq

\* the buffer times a scalar whose square is factor_sq
Scaled(buffer, factor_sq) ==
    [i \in 1..Len(buffer) |-> Sample(buffer[i].sgn, FracMul(buffer[i].sq, factor_sq))]

\* line 353: normalized * (0.99 / peak), for peak > 0. The product is taken
\* as (normalized / peak) * 0.99, which is the same number and keeps the
\* integers of the fractions small
Limited(normalized, peak) ==
    [i \in 1..Len(normalized) |->
        Sample(normalized[i].sgn,
               FracMul(FracDiv(normalized[i].sq, peak), PeakLimitSq))]

\* lines 340-355 for the samples data / den. rms is kept as its square, the
\* mean of the squares; gain_linear = 10 ** ((target_dbfs - 20 * log10(rms +
\* 1e-10)) / 20) is 10 ** (target_dbfs / 20) / (rms + 1e-10), where the 1e-10
\* is below the resolution of the samples of the model and is left out.
\* np.mean of an empty buffer is 0/0 (nan, with a warning), which is not == 0,
\* and np.max of the empty buffer of line 351 raises ValueError.
_normalize(data, den, target_dbfs) ==
    LET audio == Floats(data, den)
        n == Len(data)
        unchanged == [raised |-> "none", passed |-> TRUE, div0 |-> FALSE,
                      limited |-> FALSE, buffer |-> audio]
    IN  IF n = 0
        THEN [unchanged EXCEPT !.raised = "ValueError", !.passed = FALSE,
                               !.div0 = TRUE]
        ELSE IF SumSq(data) = 0
        THEN unchanged
        ELSE LET mean_sq == Frac(SumSq(data), n * den * den * AmpScale * AmpScale)
                 gain_sq == FracDiv(TargetGainSq(target_dbfs), mean_sq)
                 normalized == Scaled(audio, gain_sq)
                 peak == Peak(normalized)
             IN  IF FracLess(PeakLimitSq, peak)
                 THEN [unchanged EXCEPT
                          !.passed = FALSE, !.limited = TRUE,
                          !.div0 = (peak.n = 0),
                          !.buffer = Limited(normalized, peak)]
                 ELSE [unchanged EXCEPT !.passed = FALSE, !.buffer = normalized]

-----------------------------------------------------------------------------
(* AudioProcessor._compress_silences: src/src/audio_processor.py:301-336 *)

Min(a, b) == IF a <= b THEN a ELSE b

\* audio[a:b] of numpy for 0 <= a, 0 <= b: the bounds are cut to the length
Slice(audio, a, b) == SubSeq(audio, Min(a, Len(audio)) + 1, Min(b, Len(audio)))

\* np.zeros(k)
Zeros(k) == [i \in 1..k |-> 0]

LongGapInclusive(gap_length, max_gap_samples) == gap_length >= max_gap_samples

\* line 325
LongGap(gap_length, max_gap_samples) == gap_length > max_gap_samples

\* lines 315-333: the chunks of segments i.. joined, and the samples removed
RECURSIVE Chunks(_, _, _, _, _)
Chunks(audio, speech_segments, i, max_gap_samples, keep_samples) ==
    LET seg == speech_segments[i]
        speech == Slice(audio, seg.start, seg.end)
    IN  IF i = Len(speech_segments)
        THEN [result |-> speech, total_removed |-> 0]
        ELSE LET gap_start == seg.end
                 gap_end == speech_segments[i + 1].start
                 gap_length == gap_end - gap_start
                 rest == Chunks(audio, speech_segments, i + 1, max_gap_samples,
                                keep_samples)
             IN  IF LongGap(gap_length, max_gap_samples)
                 THEN [result |-> speech \o Zeros(keep_samples) \o rest.result,
                       total_removed |-> (gap_length - keep_samples)
                                             + rest.total_removed]
                 ELSE IF gap_length > 0
                 THEN [result |-> speech \o Slice(audio, gap_start, gap_end)
                                      \o rest.result,
                       total_removed |-> rest.total_removed]
                 ELSE [result |-> speech \o rest.result,
                       total_removed |-> rest.total_removed]

_compress_silences(audio, speech_segments, sr, max_gap_ms, keep_ms) ==
    IF speech_segments = <<>>
    THEN [audio |-> audio, removed_ms |-> 0, total_removed |-> 0]
    ELSE LET max_gap_samples == TruncDiv(max_gap_ms * sr, 1000)
             keep_samples == TruncDiv(keep_ms * sr, 1000)
             joined == Chunks(audio, speech_segments, 1, max_gap_samples,
                              keep_samples)
         IN  [audio |-> joined.result,
              removed_ms |-> TruncDiv(joined.total_removed * 1000, sr),
              total_removed |-> joined.total_removed]

\* the lists of k speech segments within samples from..n, as Silero returns
\* them: ordered, not empty and not overlapping (a segment may begin where
\* the one before it ends)
RECURSIVE SegmentLists(_, _, _)
SegmentLists(from, n, k) ==
    IF k = 0 THEN {<<>>}
    ELSE UNION {{<<[start |-> s, end |-> e]>> \o rest :
                    rest \in SegmentLists(e, n, k - 1)} :
                <<s, e>> \in {p \in (from..n) \X (from..n) : p[1] < p[2]}}

(* Lifespan of the service: src/src/main.py:37-77 *)

\* phase: where lifespan is; task: the run the background task was created
\* for; q_stop, p_stop: whether and when stop() was first called on the
\* listener (history, kept by the specification of the lifespan only)
Life0 == [phase |-> "startup", task |-> "none", q_stop |-> "no", p_stop |-> "no"]

\* a task for a listener that is not the one of the mode
TaskAlsoWhenManual(mode) ==
    IF mode = "polling" THEN "polling_listener" ELSE "queue_listener"

\* lines 45-58: the run the background task is created for
background_task(mode) ==
    IF mode = "queue" THEN "queue_listener"
    ELSE IF mode = "polling" THEN "polling_listener"
    ELSE "none"

\* lines 40-60: lifespan up to its yield
LifespanStartup ==
    /\ life.phase = "startup"
    /\ life' = [life EXCEPT !.phase = "serving",
                            !.task = background_task(processing_mode)]
    /\ UNCHANGED <<vad, api, ingest_vars, pipe, fn>>

\* the event loop gives the created task its first step: run begins
TaskQueueRun ==
    /\ life.task = "queue_listener"
    /\ QueueRun

TaskPollRun ==
    /\ life.task = "polling_listener"
    /\ PollRun

\* when a stop() call fell: before run's first step, or after it
StopTime(pc) == IF pc = "init" THEN "before_run" ELSE "after_run_began"

\* queue_listener.stop() called by whoever holds the listener (the signal
\* handler of main.py:87-92, a test, an embedding application), at any time;
\* the history keeps when the first call fell
QueueStopCall ==
    /\ life.q_stop = "no"
    /\ queue_listener_stop
    /\ life' = [life EXCEPT !.q_stop = StopTime(q_pc)]
    /\ UNCHANGED <<vad, api, pipe, fn>>

\* polling_listener.stop(), likewise
PollStopCall ==
    /\ life.p_stop = "no"
    /\ polling_listener_stop
    /\ life' = [life EXCEPT !.p_stop = StopTime(p_pc)]
    /\ UNCHANGED <<vad, api, pipe, fn>>

\* task.cancel(): CancelledError is raised in run at its suspension point (it
\* is no Exception, so lines 255 and 329 do not catch it) or, for a task that
\* has not begun, in place of its first step
Cancelled(pc) == IF pc = "done" THEN "done" ELSE "cancelled"

\* lines 62-77: both listeners are told to stop and the background task is
\* cancelled and awaited, when there is one
LifespanShutdown ==
    /\ life.phase = "serving"
    /\ IF life.task # "none"
       THEN /\ q_running' = FALSE
            /\ p_running' = FALSE
            /\ q_pc' = IF life.task = "queue_listener" THEN Cancelled(q_pc) ELSE q_pc
            /\ p_pc' = IF life.task = "polling_listener" THEN Cancelled(p_pc) ELSE p_pc
            /\ life' = [life EXCEPT
                          !.phase = "closed",
                          !.q_stop = IF @ = "no" THEN StopTime(q_pc) ELSE @,
                          !.p_stop = IF @ = "no" THEN StopTime(p_pc) ELSE @]
       ELSE /\ life' = [life EXCEPT !.phase = "closed"]
            /\ UNCHANGED <<q_running, p_running, q_pc, p_pc>>
    /\ UNCHANGED <<delete_source, processing_mode, storage, processed_count,
                   error_count, attempt, queue, q_batch, q_cycle, q_hist,
                   p_blobs, p_processed, p_hist, pipe, fn, vad, api>>

\* no pipeline run, no function call under way
NoRun == [pc |-> "none"]
NoCall == [op |-> "none"]

-----------------------------------------------------------------------------
(* AudioProcessor.process, stage by stage: src/src/audio_processor.py:148-253 *)

\* ProcessingStats(): lines 31-39
ProcessingStats0 ==
    [original_duration_ms |-> 0, final_duration_ms |-> 0,
     original_sample_rate |-> 0, original_channels |-> 0,
     speech_segments |-> 0, silence_removed_ms |-> 0,
     noise_reduced |-> FALSE, normalized |-> FALSE,
     stages_completed |-> <<>>]

\* ProcessingStats.compression_ratio (lines 42-46), as the fraction
\* (original - final) / original; its numerator may be negative
compression_ratio(stats) ==
    IF stats.original_duration_ms = 0
    THEN [num |-> 0, den |-> 1]
    ELSE [num |-> stats.original_duration_ms - stats.final_duration_ms,
          den |-> stats.original_duration_ms]

\* an entry of stages_completed, f"{name}:{args...}{text}"
Tag(name, args, text) == [name |-> name, args |-> args, text |-> text]

LoggedWhenRan(stats, tag) ==
    IF tag.text \in {"skipped", "disabled"}
    THEN stats
    ELSE [stats EXCEPT !.stages_completed = Append(@, tag)]

\* stats.stages_completed.append(tag)
Logged(stats, tag) == [stats EXCEPT !.stages_completed = Append(@, tag)]

\* int(len(audio) / sr * 1000): lines 171 and 246
DurationMs(n, sr) == TruncDiv(n * 1000, sr)

\* An array is its dimension count, its rows (samples for one dimension, rows
\* of channel values for two) and the denominator its integers are over
Array1(data, den) == [ndim |-> 1, data |-> data, den |-> den]

Array2(rows, den) == [ndim |-> 2, data |-> rows, den |-> den]

\* the sample values of a decoded file, in units of 1/AmpScale
Content(i) == 10 * (((i - 1) % 3) + 1)

\* what the decoder gives for the bytes: sf.read and librosa.load + .T both
\* end with (samples,) for one channel and (samples, channels) for more (the
\* channels of a file differ from each other and from frame to frame)
_load_audio(file) ==
    IF file.channels = 1
    THEN Array1([i \in 1..file.frames |-> file.scale * Content(i)], 1)
    ELSE Array2([i \in 1..file.frames |->
                    [c \in 1..file.channels |->
                        file.scale * Content(i + 2 * (c - 1))]], 1)

\* librosa.resample of one run of samples: ceil(n * target_sr / orig_sr)
\* samples come out; each is stood for by the input sample at its time
Resample1(samples, orig_sr, target_sr) ==
    [j \in 1..CeilDiv(Len(samples) * target_sr, orig_sr) |->
        samples[Min(Len(samples), ((j - 1) * orig_sr) \div target_sr + 1)]]

\* librosa.resample(audio, orig_sr=, target_sr=): along the last axis, which
\* for two dimensions is the axis of the channels
resample(audio, orig_sr, target_sr) ==
    IF audio.ndim = 1
    THEN [audio EXCEPT !.data = Resample1(@, orig_sr, target_sr)]
    ELSE [audio EXCEPT !.data =
             [i \in 1..Len(@) |-> Resample1(@[i], orig_sr, target_sr)]]

\* line 190: np.mean(audio, axis=0) if audio.shape[0] <= 2 else
\* np.mean(audio, axis=1)
ToMono(audio) ==
    LET rows == Len(audio.data)
        cols == Len(audio.data[1])
    IN  IF rows <= 2
        THEN Array1([c \in 1..cols |-> Sum([r \in 1..rows |-> audio.data[r][c]])],
                    audio.den * rows)
        ELSE Array1([r \in 1..rows |-> Sum(audio.data[r])], audio.den * cols)

\* line 197: audio.flatten(), row after row
flatten(audio) ==
    IF audio.ndim = 1
    THEN audio
    ELSE LET cols == Len(audio.data[1])
         IN  Array1([k \in 1..(Len(audio.data) * cols) |->
                        audio.data[(k - 1) \div cols + 1][((k - 1) % cols) + 1]],
                    audio.den)

\* the rates Silero takes as they are: line 114
SileroRates == {8000, 16000}

\* the rate of what detect_speech hands to the model: lines 114-116
VadRate(sample_rate) ==
    IF sample_rate \notin SileroRates THEN 16000 ELSE sample_rate

\* what detect_speech hands to the model: lines 114-116
VadInput(audio, sample_rate) ==
    IF sample_rate \notin SileroRates
    THEN resample(audio, sample_rate, 16000)
    ELSE audio

\* the segment lists the model may return for m samples, in samples of what
\* it was handed: none, all of it, and speech in quarters of it with gaps of
\* no, one and two quarters between or around them
VadResults(m) ==
    LET q == m \div 4
        S(a, b) == [start |-> a, end |-> b]
    IN  {<<>>} \cup
        (IF m > 0 THEN {<<S(0, m)>>} ELSE {}) \cup
        (IF q > 0
         THEN {<<S(q, 2 * q)>>, <<S(0, q), S(q, 2 * q)>>,
               <<S(0, q), S(2 * q, 3 * q)>>, <<S(0, q), S(3 * q, m)>>}
         ELSE {})

\* the files: undecodable bytes, and decodable ones by rate, channels,
\* frames and the scale of their samples (an empty file only at the target
\* rates; a single frame in stereo; float samples beyond full scale, which
\* sf.read returns as stored, in one short mono file)
Files ==
    {[decodable |-> FALSE, sr |-> 16000, channels |-> 1, frames |-> 0,
      scale |-> 1]} \cup
    {f \in [decodable : {TRUE}, sr : {16000, 44100}, channels : {1, 2},
            frames : {0, 1, 2, 64, 88}, scale : {1, 6}] :
        /\ f.frames = 0 => f.channels = 1 /\ f.sr = 16000
        /\ f.frames = 1 => f.channels = 2 /\ f.sr = 16000
        /\ f.scale = 6 => f.channels = 1 /\ f.sr = 16000 /\ f.frames = 2}

\* the settings: the four enable flags, the silence pair in milliseconds
\* (keep_ms above max_gap_ms included), the target rate and level
Settings ==
    [noise : BOOLEAN, vad : BOOLEAN, silence : BOOLEAN, normalize : BOOLEAN,
     gap : {[max_gap_ms |-> 1, keep_ms |-> 0], [max_gap_ms |-> 1, keep_ms |-> 3]},
     target_sample_rate : {16000, 32000}, target_channels : {1},
     target_dbfs : {-20}]

\* process(audio_data, filename) is entered: line 163
ProcessCall ==
    /\ pipe = NoRun
    /\ \E file \in Files, cfg \in Settings :
         /\ file.frames = 0 => cfg.target_sample_rate = file.sr
         /\ pipe' = [pc |-> "load", file |-> file, cfg |-> cfg,
                     audio |-> Array1(<<>>, 1), sr |-> 0,
                     stats |-> ProcessingStats0,
                     speech_timestamps |-> <<>>, noise |-> "none",
                     out |-> <<>>, rows |-> 0,
                     wav |-> [sr |-> 0, frames |-> 0, channels |-> 0,
                              subtype |-> "none", samples |-> <<>>],
                     raised |-> "none", result |-> NoResult]
    /\ UNCHANGED <<vad, api, ingest_vars, life, fn>>

Raise(exc) == pipe' = [pipe EXCEPT !.pc = "raised", !.raised = exc]

\* Stage 1, lines 165-172
StageLoad ==
    /\ pipe.pc = "load"
    /\ IF ~pipe.file.decodable
       THEN Raise("LibsndfileError")
       ELSE LET audio == _load_audio(pipe.file)
                sr == pipe.file.sr
                channels == pipe.file.channels
            IN  pipe' = [pipe EXCEPT
                    !.pc = "resample", !.audio = audio, !.sr = sr,
                    !.stats = Logged(
                        [@ EXCEPT !.original_sample_rate = sr,
                                  !.original_channels = channels,
                                  !.original_duration_ms =
                                      DurationMs(Len(audio.data), sr)],
                        Tag("loaded", <<sr, channels>>, "Hz,ch"))]
    /\ UNCHANGED <<vad, api, ingest_vars, life, fn>>

\* Stage 2, lines 175-185
StageResample ==
    /\ pipe.pc = "resample"
    /\ LET target_sr == pipe.cfg.target_sample_rate
       IN  IF pipe.sr # target_sr
           THEN pipe' = [pipe EXCEPT
                    !.pc = "mono",
                    !.audio = resample(@, pipe.sr, target_sr),
                    !.sr = target_sr,
                    !.stats = Logged(@, Tag("resampled", <<target_sr>>, "Hz"))]
           ELSE pipe' = [pipe EXCEPT
                    !.pc = "mono",
                    !.stats = Logged(@, Tag("resample", <<>>, "skipped"))]
    /\ UNCHANGED <<vad, api, ingest_vars, life, fn>>

\* Stage 3 and the flattening, lines 187-197
StageMono ==
    /\ pipe.pc = "mono"
    /\ IF pipe.audio.ndim > 1 /\ pipe.cfg.target_channels = 1
       THEN pipe' = [pipe EXCEPT
                !.pc = "noise",
                !.rows = Len(pipe.audio.data),
                !.audio = flatten(ToMono(@)),
                !.stats = Logged(@, Tag("mono", <<>>, "converted"))]
       ELSE pipe' = [pipe EXCEPT
                !.pc = "noise",
                !.rows = Len(pipe.audio.data),
                !.audio = flatten(@),
                !.stats = Logged(@, Tag("mono", <<>>, "skipped"))]
    /\ UNCHANGED <<vad, api, ingest_vars, life, fn>>

\* nr.reduce_noise(y=audio, ...): a buffer of the same length with other
\* values, stood for by the samples at half their amplitude
reduce_noise(audio) == [audio EXCEPT !.den = @ * 2]

\* a denoiser failure answered with silence in place of the input
ReduceNoiseSilencing(audio, outcome) ==
    IF outcome = "failed"
    THEN [audio EXCEPT !.data = [i \in 1..Len(@) |-> 0]]
    ELSE reduce_noise(audio)

\* _reduce_noise, lines 285-299: except Exception: return audio
_reduce_noise(audio, outcome) ==
    IF outcome = "failed" THEN audio ELSE reduce_noise(audio)

\* Stage 4, lines 199-207: the denoiser returns or raises inside
\* _reduce_noise; the flag and the log entry are written after either
StageNoise ==
    /\ pipe.pc = "noise"
    /\ IF pipe.cfg.noise
       THEN \E outcome \in {"reduced", "failed"} :
               pipe' = [pipe EXCEPT
                   !.pc = "vad",
                   !.audio = _reduce_noise(@, outcome),
                   !.noise = outcome,
                   !.stats = Logged([@ EXCEPT !.noise_reduced = TRUE],
                                    Tag("noise_reduction", <<>>, "applied"))]
       ELSE pipe' = [pipe EXCEPT
                !.pc = "vad",
                !.stats = Logged(@, Tag("noise_reduction", <<>>, "disabled"))]
    /\ UNCHANGED <<vad, api, ingest_vars, life, fn>>

\* Stage 5, lines 209-219, with detect_speech (lines 97-139): the model may
\* fail to load, and its timestamps are in samples of what it was handed
StageVAD ==
    /\ pipe.pc = "vad"
    /\ IF pipe.cfg.vad
       THEN \/ Raise("ModelUnavailable")
            \/ \E speech_timestamps \in
                      VadResults(Len(VadInput(pipe.audio, pipe.sr).data)) :
                  pipe' = [pipe EXCEPT
                      !.pc = "silence",
                      !.speech_timestamps = speech_timestamps,
                      !.stats = Logged(
                          [@ EXCEPT !.speech_segments = Len(speech_timestamps)],
                          Tag("vad", <<Len(speech_timestamps)>>, "_segments"))]
       ELSE pipe' = [pipe EXCEPT
                !.pc = "silence",
                !.speech_timestamps =
                    <<[start |-> 0, end |-> Len(pipe.audio.data)]>>,
                !.stats = Logged(@, Tag("vad", <<>>, "disabled"))]
    /\ UNCHANGED <<vad, api, ingest_vars, life, fn>>

\* the stage run for an empty list of segments as well
SilenceRunsWhenEnabled(cfg, speech_timestamps) == cfg.silence

\* line 222: if settings.silence.enabled and speech_timestamps
SilenceRuns(cfg, speech_timestamps) == cfg.silence /\ speech_timestamps # <<>>

\* Stage 6, lines 221-230
StageSilence ==
    /\ pipe.pc = "silence"
    /\ IF SilenceRuns(pipe.cfg, pipe.speech_timestamps)
       THEN LET r == _compress_silences(pipe.audio.data, pipe.speech_timestamps,
                                        pipe.sr, pipe.cfg.gap.max_gap_ms,
                                        pipe.cfg.gap.keep_ms)
            IN  pipe' = [pipe EXCEPT
                    !.pc = "normalize",
                    !.audio = [@ EXCEPT !.data = r.audio],
                    !.stats = Logged(
                        [@ EXCEPT !.silence_removed_ms = r.removed_ms],
                        Tag("silence_compression", <<r.removed_ms>>, "ms_removed"))]
       ELSE pipe' = [pipe EXCEPT
                !.pc = "normalize",
                !.stats = Logged(@, Tag("silence_compression", <<>>, "disabled"))]
    /\ UNCHANGED <<vad, api, ingest_vars, life, fn>>

\* Stage 7, lines 232-240
StageNormalize ==
    /\ pipe.pc = "normalize"
    /\ IF pipe.cfg.normalize
       THEN LET r == _normalize(pipe.audio.data, pipe.audio.den,
                                pipe.cfg.target_dbfs)
            IN  IF r.raised # "none"
                THEN Raise(r.raised)
                ELSE pipe' = [pipe EXCEPT
                         !.pc = "export",
                         !.out = r.buffer,
                         !.stats = Logged(
                             [@ EXCEPT !.normalized = TRUE],
                             Tag("normalized", <<pipe.cfg.target_dbfs>>, "dBFS"))]
       ELSE pipe' = [pipe EXCEPT
                !.pc = "export",
                !.out = Floats(pipe.audio.data, pipe.audio.den),
                !.stats = Logged(@, Tag("normalization", <<>>, "disabled"))]
    /\ UNCHANGED <<vad, api, ingest_vars, life, fn>>

\* the largest magnitude the model scales: its square is the largest below
\* 2^31, and it is above both ends of the int16 range
MaxScaled == 46340

\* the largest k of lo..hi with (k / 32767) ** 2 <= sq
RECURSIVE FloorScaled(_, _, _)
FloorScaled(sq, lo, hi) ==
    IF lo = hi THEN lo
    ELSE LET mid == (lo + hi + 1) \div 2
         IN  IF FracCmp(mid * mid, 32767 * 32767, sq.n, sq.d) <= 0
             THEN FloorScaled(sq, mid, hi)
             ELSE FloorScaled(sq, lo, mid - 1)

\* np.clip(v, lo, hi)
clip(v, lo, hi) == IF v < lo THEN lo ELSE IF v > hi THEN hi ELSE v

\* line 359 for one sample: np.clip(x * 32767, -32768, 32767) and then
\* .astype(np.int16), which drops the fraction. The fraction is dropped
\* first here, which gives the same integer as the limits are integers
ToInt16(x) == clip(x.sgn * FloorScaled(x.sq, 0, MaxScaled), -32768, 32767)

\* _export_wav, lines 357-365: sf.write(buffer, audio_int16, sr,
\* format='WAV', subtype='PCM_16') of a one-dimensional array
_export_wav(audio, sr) ==
    LET values == {audio[i] : i \in 1..Len(audio)}
        encoded == [x \in values |-> ToInt16(x)]
    IN  [sr |-> sr, frames |-> Len(audio), channels |-> 1,
         subtype |-> "PCM_16",
         samples |-> [i \in 1..Len(audio) |-> encoded[audio[i]]]]

\* the export and the return, lines 242-253
StageExport ==
    /\ pipe.pc = "export"
    /\ pipe' = [pipe EXCEPT
           !.pc = "done",
           !.wav = _export_wav(pipe.out, pipe.sr),
           !.stats = [@ EXCEPT !.final_duration_ms =
                                   DurationMs(Len(pipe.out), pipe.sr)]]
    /\ UNCHANGED <<vad, api, ingest_vars, life, fn>>

\* process_blob around the run (queue_listener.py:62-104) when storage does
\* what it is asked: the return of process leads to the success result, an
\* exception out of process to the except clause
ReportResult ==
    /\ pipe.pc \in {"done", "raised"}
    /\ pipe.result = NoResult
    /\ pipe' = [pipe EXCEPT
           !.result = IF pipe.pc = "done"
                      THEN ProcessingResult(TRUE, full_path(ItemA),
                               <<container_output, "/">> \o output_name(ItemA),
                               TRUE, "None")
                      ELSE ProcessingResult(FALSE, full_path(ItemA), NoPath,
                                            FALSE, pipe.raised)]
    /\ UNCHANGED <<vad, api, ingest_vars, life, fn>>

-----------------------------------------------------------------------------
(* SileroVAD, the lazily loaded speech model: src/src/audio_processor.py:63-139 *)

\* the threads that run processor.process: the executor thread a listener
\* hands process_blob to (queue_listener.py:227-231, 302-306) and the thread
\* of a request of api.py (lines 182, 230)
VadThreads == {"executor", "request"}

\* detect_speech calls per thread and behaviour
MaxDetectCalls == 2

\* None, for _model and _get_speech_timestamps; a loaded model is the number
\* of the load that made it
NotLoaded == 0

\* lines 66-68 and the threads outside detect_speech; used: the models that
\* calls were made with, failed: the exceptions calls ended with, overlap:
\* whether a call was ever made while another was under way (history)
Vad0 ==
    [_model |-> NotLoaded, _get_speech_timestamps |-> NotLoaded, loads |-> 0,
     used |-> {}, failed |-> {}, overlap |-> FALSE,
     t |-> [th \in VadThreads |-> [pc |-> "idle", calls |-> 0, model |-> NotLoaded]]]

\* line 75: self._model is not None
ModelIsSet(v) == v._model # NotLoaded

\* detect_speech is called: line 110
DetectSpeech(th) ==
    /\ vad.t[th].pc = "idle"
    /\ vad.t[th].calls < MaxDetectCalls
    /\ vad' = [vad EXCEPT
           !.t[th].pc = "check",
           !.overlap = @ \/ \E o \in VadThreads \ {th} : vad.t[o].pc # "idle"]
    /\ UNCHANGED <<ingest_vars, life, pipe, fn, api>>

\* _load_model, lines 75-76: return when the model is set
LoadCheck(th) ==
    /\ vad.t[th].pc = "check"
    /\ IF ModelIsSet(vad)
       THEN vad' = [vad EXCEPT !.t[th].pc = "use"]
       ELSE vad' = [vad EXCEPT !.t[th].pc = "load"]
    /\ UNCHANGED <<ingest_vars, life, pipe, fn, api>>

\* lines 78-94, the right-hand sides: load_silero_vad(onnx=True) or
\* torch.hub.load(...) returns a new model, or raises out of detect_speech
LoadRun(th) ==
    /\ vad.t[th].pc = "load"
    /\ \/ vad' = [vad EXCEPT !.loads = @ + 1,
                              !.t[th].model = vad.loads + 1,
                              !.t[th].pc = "assign"]
       \/ vad' = [vad EXCEPT !.failed = @ \cup {"ModelUnavailable"},
                              !.t[th].calls = @ + 1,
                              !.t[th].pc = "idle"]
    /\ UNCHANGED <<ingest_vars, life, pipe, fn, api>>

\* lines 81 or 92: self._model = ...
AssignModel(th) ==
    /\ vad.t[th].pc = "assign"
    /\ vad' = [vad EXCEPT !._model = vad.t[th].model,
                          !.t[th].pc = "assign_fn"]
    /\ UNCHANGED <<ingest_vars, life, pipe, fn, api>>

\* lines 82 or 93: self._get_speech_timestamps = ...
AssignFunction(th) ==
    /\ vad.t[th].pc = "assign_fn"
    /\ vad' = [vad EXCEPT !._get_speech_timestamps = vad.t[th].model,
                          !.t[th].pc = "use"]
    /\ UNCHANGED <<ingest_vars, life, pipe, fn, api>>

\* lines 122-134: self._get_speech_timestamps(audio_tensor, self._model, ...)
\* with what the two attributes hold at the call; calling None is a TypeError
GetSpeechTimestamps(th) ==
    /\ vad.t[th].pc = "use"
    /\ IF vad._get_speech_timestamps = NotLoaded
       THEN vad' = [vad EXCEPT !.failed = @ \cup {"TypeError"},
                               !.t[th].calls = @ + 1,
                               !.t[th].model = NotLoaded,
                               !.t[th].pc = "idle"]
       ELSE vad' = [vad EXCEPT !.used = @ \cup {vad._model},
                               !.t[th].calls = @ + 1,
                               !.t[th].model = NotLoaded,
                               !.t[th].pc = "idle"]
    /\ UNCHANGED <<ingest_vars, life, pipe, fn, api>>

-----------------------------------------------------------------------------
(* The requests of api.py on the module-level worker: src/src/api.py *)

\* the two callers of worker.process_blob: the handler of POST /process, on
\* the event loop (line 182), and process_all, the background task of POST
\* /process/batch, which is a plain function and so runs in a thread of the
\* pool (lines 228-234)
Requests == {"process", "batch"}

\* process_blob calls per caller and behaviour
MaxManualCalls == 2

NoStats == [processed_count |-> -1, error_count |-> -1]

\* r: where each caller is in process_blob, the exception of its try body
\* and the counter value it has read; stats: the latest StatsResponse;
\* strategy: the counters of the Worker of the running listener when that
\* response was made, completed: the calls of the module-level worker that
\* have returned, overlapped: whether two of them were ever under way at the
\* same time (history)
Api0 ==
    [r |-> [req \in Requests |-> [pc |-> "idle", exc |-> NoExc, read |-> 0,
                                  calls |-> 0]],
     stats |-> NoStats, strategy |-> NoStats, completed |-> 0,
     overlapped |-> FALSE]

\* the event loop is not inside the handler of POST /process, which calls
\* process_blob without awaiting anything
LoopFree == api.r["process"].pc = "idle"

\* the blob a request is for: the one named in the body of POST /process
\* (lines 168-179: it exists and has a supported extension), the first of
\* the listing for POST /process/batch with limit=1 (lines 218-225)
RequestBlobs(req) ==
    IF req = "process"
    THEN (IF storage[Key(ItemA)] # NoBlob THEN <<ItemA>> ELSE <<>>)
    ELSE LET blobs == list_blobs(storage, container_input, folder_input,
                                 supported_extensions)
         IN  IF blobs = <<>> THEN <<>> ELSE <<blobs[1]>>

\* worker.process_blob(blob_info) is entered and its try body runs
\* (queue_listener.py:54-79)
ManualCall(req) ==
    /\ life.phase = "serving"
    /\ LoopFree
    /\ api.r[req].pc = "idle"
    /\ api.r[req].calls < MaxManualCalls
    /\ RequestBlobs(req) # <<>>
    /\ \E fault \in Faults :
         LET r == TryBody(RequestBlobs(req)[1], fault, storage, delete_source)
         IN  /\ storage' = r.st
             /\ api' = [api EXCEPT
                    !.r[req].pc = "count",
                    !.r[req].exc = r.exc,
                    !.overlapped = @ \/ \E o \in Requests \ {req} :
                                            api.r[o].pc # "idle"]
    /\ UNCHANGED <<delete_source, processing_mode, processed_count, error_count,
                   attempt, queue, q_pc, q_running, q_batch, q_cycle, q_hist,
                   p_pc, p_running, p_blobs, p_processed, p_hist, life, pipe,
                   fn, vad>>

\* self.processed_count += 1 or self.error_count += 1 (queue_listener.py:81,
\* 95), first half: the attribute is read
CounterRead(req) ==
    /\ api.r[req].pc = "count"
    /\ api' = [api EXCEPT
           !.r[req].pc = "store",
           !.r[req].read = IF api.r[req].exc = NoExc
                           THEN processed_count["worker"]
                           ELSE error_count["worker"]]
    /\ UNCHANGED <<ingest_vars, life, pipe, fn, vad>>

\* second half: the value read, plus one, is stored; process_blob returns
CounterStore(req) ==
    /\ api.r[req].pc = "store"
    /\ IF api.r[req].exc = NoExc
       THEN /\ processed_count' =
                   [processed_count EXCEPT !["worker"] = api.r[req].read + 1]
            /\ UNCHANGED error_count
       ELSE /\ error_count' =
                   [error_count EXCEPT !["worker"] = api.r[req].read + 1]
            /\ UNCHANGED processed_count
    /\ api' = [api EXCEPT !.r[req].pc = "idle",
                          !.r[req].calls = @ + 1,
                          !.completed = @ + 1]
    /\ UNCHANGED <<delete_source, processing_mode, storage, attempt, queue,
                   q_pc, q_running, q_batch, q_cycle, q_hist, p_pc, p_running,
                   p_blobs, p_processed, p_hist, life, pipe, fn, vad>>

\* the counters of a Worker, as a StatsResponse carries them
CountersOf(w) ==
    IF w \in Workers
    THEN [processed_count |-> processed_count[w], error_count |-> error_count[w]]
    ELSE NoStats

\* GET /stats, lines 143-155: the counters of the module-level worker
get_stats ==
    /\ life.phase = "serving"
    /\ LoopFree
    /\ api' = [api EXCEPT !.stats = CountersOf("worker"),
                          !.strategy = CountersOf(life.task)]
    /\ UNCHANGED <<ingest_vars, life, pipe, fn, vad>>

-----------------------------------------------------------------------------
(* Specifications *)

\* the blobs found in storage when the service starts: a is the content of
\* incoming/a.wav
InitialStorage(a) ==
    [k \in StoreKeys |->
        CASE k = Key(ItemA) -> a
          [] k = Key(ItemB) -> "pcmB"
          [] k = Key(ItemOutside) -> "pcmC"
          [] k = Key(ItemTxt) -> "text"
          [] k = Key(ItemOther) -> "pcmC"
          [] OTHER -> NoBlob]

InitCommon ==
    /\ delete_source \in BOOLEAN
    /\ processed_count = [w \in Workers |-> 0]
    /\ error_count = [w \in Workers |-> 0]
    /\ attempt = NoAttempt
    /\ q_pc = "init"
    /\ q_running = FALSE
    /\ q_batch = <<>>
    /\ q_cycle = [id \in MsgIds |-> CycleEntry0]
    /\ q_hist = [id \in MsgIds |-> QueueHist0]
    /\ p_pc = "init"
    /\ p_running = FALSE
    /\ p_blobs = <<>>
    /\ p_processed = {}
    /\ p_hist = PollHist0
    /\ life = Life0
    /\ pipe = NoRun
    /\ fn = NoCall
    /\ vad = Vad0
    /\ api = Api0

InitQueue ==
    /\ InitCommon
    /\ processing_mode = "queue"
    /\ storage = InitialStorage("pcmA")
    /\ \E present \in SUBSET MsgIds :
         /\ Cardinality(present) <= MaxQueue
         /\ queue = [id \in MsgIds |-> IF id \in present THEN "visible" ELSE "absent"]

InitPoll ==
    /\ InitCommon
    /\ processing_mode = "polling"
    /\ \E a \in {"pcmA", "corrupt"}, b \in {"pcmB", NoBlob} :
         storage = [InitialStorage(a) EXCEPT ![Key(ItemB)] = b]
    /\ queue = [id \in MsgIds |-> "absent"]

Init == InitQueue \/ InitPoll

NextQueue ==
    \/ QueueRun
    \/ QueueReceive
    \/ QueueHandle
    \/ QueueCycleEnd
    \/ QueueWake
    \/ QueueExit
    \/ QueueStop
    \/ VisibilityTimeout

NextPoll ==
    \/ PollRun
    \/ PollScan
    \/ PollHandle
    \/ PollCycleEnd
    \/ PollWake
    \/ PollExit
    \/ PollStop

Next == NextQueue \/ NextPoll

Spec == Init /\ [][Next]_vars

SpecQueue == InitQueue /\ [][NextQueue]_vars

SpecPoll == InitPoll /\ [][NextPoll]_vars

\* the polling listener over an input folder that holds incoming/a.wav and
\* items of the same stem in another directory or with another extension
InitSameStem ==
    /\ InitCommon
    /\ processing_mode = "polling"
    /\ \E sub \in {"pcmB", NoBlob}, ext \in {"pcmC", NoBlob} :
         /\ sub # NoBlob \/ ext # NoBlob
         /\ storage = [InitialStorage("pcmA") EXCEPT
                          ![Key(ItemB)] = NoBlob,
                          ![Key(ItemSub)] = sub,
                          ![Key(ItemExt)] = ext]
    /\ queue = [id \in MsgIds |-> "absent"]

SpecSameStem == InitSameStem /\ [][NextPoll]_vars

\* The listeners with stop() called at any time, under the scheduling of the
\* event loop: a coroutine whose await has completed is resumed, the sleep
\* ends, and a Worker invocation handed to the executor returns.

\* where run was when stop() was called: before its first step, in a cycle
\* with items still to be dispatched (and whether the Worker had been invoked
\* at all by then), or at the point named
StopPoint(pc, pending, calls) ==
    IF pc = "init" THEN "before_run"
    ELSE IF pc = "dispatch" /\ pending # <<>>
    THEN IF calls = 0 THEN "mid_cycle_uncalled" ELSE "mid_cycle"
    ELSE pc

\* queue_listener.stop(), the history keeping where run was at the first call
QueueStopNoted ==
    /\ life.q_stop = "no"
    /\ queue_listener_stop
    /\ life' = [life EXCEPT !.q_stop =
                          StopPoint(q_pc, q_batch,
                                    Total("queue_listener", processed_count,
                                          error_count))]
    /\ UNCHANGED <<vad, api, pipe, fn>>

\* polling_listener.stop(), likewise
PollStopNoted ==
    /\ life.p_stop = "no"
    /\ polling_listener_stop
    /\ life' = [life EXCEPT !.p_stop =
                          StopPoint(p_pc, p_blobs,
                                    Total("polling_listener", processed_count,
                                          error_count))]
    /\ UNCHANGED <<vad, api, pipe, fn>>

\* the counters are capped: a cycle is begun only while the bound leaves
\* room for an invocation per item received, so that every invocation of a
\* cycle that was begun is made and returns
QueueReceiveInBound ==
    /\ Total("queue_listener", processed_count, error_count)
          + Len(receive_messages(queue, max_messages)) <= MaxAttempts
    /\ QueueReceive

PollScanInBound ==
    /\ Total("polling_listener", processed_count, error_count)
          + Len(list_blobs(storage, container_input, folder_input,
                           supported_extensions)) <= MaxPollAttempts
    /\ PollScan

\* the steps of run once it has begun: lines 250-258 and 324-332
QueueLoop ==
    QueueReceiveInBound \/ QueueHandle \/ QueueCycleEnd \/ QueueWake \/ QueueExit

PollLoop ==
    PollScanInBound \/ PollHandle \/ PollCycleEnd \/ PollWake \/ PollExit

NextStop ==
    \/ QueueRun
    \/ QueueReceiveInBound
    \/ QueueHandle
    \/ QueueCycleEnd
    \/ QueueWake
    \/ QueueExit
    \/ QueueStopNoted
    \/ VisibilityTimeout
    \/ PollRun
    \/ PollScanInBound
    \/ PollHandle
    \/ PollCycleEnd
    \/ PollWake
    \/ PollExit
    \/ PollStopNoted

\* the queue listener over an empty queue, one event, two events for one
\* blob, or an event behind a message that is rejected; the polling listener
\* over the folders of InitPoll
InitStop ==
    \/ /\ InitCommon
       /\ processing_mode = "queue"
       /\ storage = InitialStorage("pcmA")
       /\ \E present \in {{}, {"ev_a"}, {"ev_a", "min_a"}, {"ev_a", "not_json"}} :
            queue = [id \in MsgIds |->
                        IF id \in present THEN "visible" ELSE "absent"]
    \/ InitPoll

SpecStop ==
    InitStop /\ [][NextStop]_vars /\ WF_vars(QueueLoop) /\ WF_vars(PollLoop)

\* the service from startup to shutdown, in each of the processing modes, with
\* at most one message in the queue
InitLife ==
    /\ InitCommon
    /\ processing_mode \in {"queue", "polling", "manual"}
    /\ storage = InitialStorage("pcmA")
    /\ \E present \in {{}, {"ev_a"}, {"not_json"}} :
         queue = [id \in MsgIds |-> IF id \in present THEN "visible" ELSE "absent"]

NextLife ==
    \/ LifespanStartup
    \/ TaskQueueRun
    \/ QueueReceive
    \/ QueueHandle
    \/ QueueCycleEnd
    \/ QueueWake
    \/ QueueExit
    \/ VisibilityTimeout
    \/ QueueStopCall
    \/ TaskPollRun
    \/ PollScan
    \/ PollHandle
    \/ PollCycleEnd
    \/ PollWake
    \/ PollExit
    \/ PollStopCall
    \/ LifespanShutdown

SpecLife == InitLife /\ [][NextLife]_vars

\* the buffers and target levels _normalize is called with: every buffer of up
\* to MaxBuffer samples out of SampleValues, in units of 1/AmpScale (full
\* scale is 100: the set holds samples beyond it)
SampleValues == {-150, -100, -3, 0, 3, 50, 100}

TargetLevels == {-20, 0, 20}

Buffers == UNION {[1..n -> SampleValues] : n \in 0..MaxBuffer}

InitCalls ==
    /\ InitCommon
    /\ processing_mode = "manual"
    /\ delete_source = TRUE
    /\ storage = InitialStorage("pcmA")
    /\ queue = [id \in MsgIds |-> "absent"]

\* a call of _normalize begins with its arguments
NormalizeCall ==
    /\ fn = NoCall
    /\ \E data \in Buffers, target_dbfs \in TargetLevels :
         fn' = [op |-> "_normalize", data |-> data, target_dbfs |-> target_dbfs,
                returned |-> FALSE]
    /\ UNCHANGED <<vad, api, ingest_vars, life, pipe>>

\* and ends with what it returns or raises
NormalizeReturn ==
    /\ fn.op = "_normalize"
    /\ ~fn.returned
    /\ fn' = [fn EXCEPT !.returned = TRUE] @@
             [out |-> _normalize(fn.data, 1, fn.target_dbfs)]
    /\ UNCHANGED <<vad, api, ingest_vars, life, pipe>>

\* the calls of _compress_silences: a buffer of CompressLen samples, each
\* sample its own position so that no sample is zero or equal to another,
\* every list of up to MaxSegments segments within it, and the silence
\* settings in whole milliseconds (keep_ms above max_gap_ms included: the
\* configuration has no rule about the pair)
CompressRates == {1000, 1500}

MaxGapValues == {1, 2, 3}

KeepValues == {0, 1, 4}

CompressCall ==
    /\ fn = NoCall
    /\ \E k \in 0..MaxSegments, sr \in CompressRates,
          max_gap_ms \in MaxGapValues, keep_ms \in KeepValues :
         \E segments \in SegmentLists(0, CompressLen, k) :
            fn' = [op |-> "_compress_silences",
                   audio |-> [i \in 1..CompressLen |-> i],
                   segments |-> segments, sr |-> sr,
                   max_gap_ms |-> max_gap_ms, keep_ms |-> keep_ms,
                   returned |-> FALSE]
    /\ UNCHANGED <<vad, api, ingest_vars, life, pipe>>

CompressReturn ==
    /\ fn.op = "_compress_silences"
    /\ ~fn.returned
    /\ fn' = [fn EXCEPT !.returned = TRUE] @@
             [out |-> _compress_silences(fn.audio, fn.segments, fn.sr,
                                         fn.max_gap_ms, fn.keep_ms)]
    /\ UNCHANGED <<vad, api, ingest_vars, life, pipe>>

NextCalls == NormalizeCall \/ NormalizeReturn \/ CompressCall \/ CompressReturn

SpecCalls == InitCalls /\ [][NextCalls]_vars

NextPipeline ==
    \/ ProcessCall
    \/ StageLoad
    \/ StageResample
    \/ StageMono
    \/ StageNoise
    \/ StageVAD
    \/ StageSilence
    \/ StageNormalize
    \/ StageExport
    \/ ReportResult

SpecPipeline == InitCalls /\ [][NextPipeline]_vars

\* the threads of the service calling detect_speech, in every interleaving
NextVad ==
    \E th \in VadThreads :
        \/ DetectSpeech(th)
        \/ LoadCheck(th)
        \/ LoadRun(th)
        \/ AssignModel(th)
        \/ AssignFunction(th)
        \/ GetSpeechTimestamps(th)

SpecVad == InitCalls /\ [][NextVad]_vars

\* the service with a listener running and GET /stats asked at any time: one
\* message for incoming/a.wav in the queue, sources kept
InitStats ==
    /\ InitCommon
    /\ ~delete_source
    /\ processing_mode \in {"queue", "polling"}
    /\ storage = InitialStorage("pcmA")
    /\ queue = [id \in MsgIds |-> IF id = "ev_a" THEN "visible" ELSE "absent"]

NextStats == NextLife \/ get_stats

SpecStats == InitStats /\ [][NextStats]_vars

\* the service in manual mode: the requests that call the module-level
\* worker, in every interleaving of the loop and the pool thread
NextManual ==
    \/ LifespanStartup
    \/ get_stats
    \/ \E req \in Requests :
          \/ ManualCall(req)
          \/ CounterRead(req)
          \/ CounterStore(req)

SpecManual == InitCalls /\ [][NextManual]_vars

-----------------------------------------------------------------------------
(* Properties of AudioProcessingWorker.process_blob *)

Called(op) == \E i \in 1..Len(attempt.calls) : attempt.calls[i] = op

IndexOfCall(op) == CHOOSE i \in 1..Len(attempt.calls) : attempt.calls[i] = op

\* the exception that the download, the transform pipeline or the upload of
\* the latest call raised, from the source blob and the fault of that call
RaisedBy(a) ==
    IF a.fault = "download" THEN "TransientIOFailure"
    ELSE IF a.pre_source = NoBlob THEN "BlobNotFound"
    ELSE IF ~Decodable(a.pre_source) THEN "UnsupportedFormat"
    ELSE IF a.fault = "model" THEN "ModelUnavailable"
    ELSE IF a.fault = "upload" THEN "UploadFailed"
    ELSE NoExc

\* the delete of the source was called and failed
DeleteFailed(a) == delete_source /\ RaisedBy(a) = NoExc /\ a.fault = "delete"

ReturnsFailure(a, message) ==
    /\ a.returned
    /\ ~a.raised
    /\ ~a.result.success
    /\ a.result.error = message
    /\ error_count[a.worker] = a.pre_error + 1
    /\ processed_count[a.worker] = a.pre_processed

ReturnsSuccess(a) ==
    /\ a.returned
    /\ ~a.raised
    /\ a.result.success
    /\ processed_count[a.worker] = a.pre_processed + 1
    /\ error_count[a.worker] = a.pre_error

\* C1, as stated: process_blob never raises, and every exception raised by the
\* download, the transform pipeline, the upload or the delete gives a returned
\* result with success=False carrying the message, error_count growing by 1.
C1_AsStated ==
    attempt.n > 0 =>
        /\ attempt.returned /\ ~attempt.raised
        /\ (RaisedBy(attempt) # NoExc => ReturnsFailure(attempt, RaisedBy(attempt)))
        /\ (DeleteFailed(attempt) =>
                /\ ~attempt.result.success
                /\ error_count[attempt.worker] = attempt.pre_error + 1)

\* C1, amended: process_blob never raises; every exception raised by the
\* download, the transform pipeline or the upload gives a returned result with
\* success=False whose error is the exception's message, error_count growing by
\* exactly 1; a failing delete is absorbed by delete_blob and the call returns
\* success=True with processed_count growing by 1.
C1_NeverRaises ==
    attempt.n > 0 =>
        /\ attempt.returned /\ ~attempt.raised
        /\ (RaisedBy(attempt) # NoExc => ReturnsFailure(attempt, RaisedBy(attempt)))
        /\ (DeleteFailed(attempt) => ReturnsSuccess(attempt) /\ ~attempt.delete_ok)

\* C1, reached: an upload that raised ended in a failed result carrying its
\* message, counted once
C1_Witness ==
    /\ attempt.n > 0
    /\ attempt.fault = "upload"
    /\ RaisedBy(attempt) = "UploadFailed"
    /\ attempt.result.error = "UploadFailed"
    /\ error_count[attempt.worker] = 1

\* C2: when the download or a stage of the transform pipeline raises, the call
\* issues neither upload_blob nor delete_blob and leaves processed_count as it
\* was; an upload is only issued with the bytes a completed pipeline run
\* returned for the source.
C2_NoPartialPublish ==
    attempt.n > 0 =>
        /\ (RaisedBy(attempt) \in {"TransientIOFailure", "BlobNotFound",
                                    "UnsupportedFormat", "ModelUnavailable"} =>
                /\ ~Called("upload")
                /\ ~Called("delete")
                /\ processed_count[attempt.worker] = attempt.pre_processed)
        /\ (Called("upload") =>
                /\ Called("process")
                /\ IndexOfCall("process") < IndexOfCall("upload")
                /\ Decodable(attempt.pre_source)
                /\ attempt.uploaded = Wav(attempt.pre_source))

\* C2, reached: a model load failure ended the call after download and
\* process, with nothing published
C2_Witness ==
    /\ attempt.n > 0
    /\ attempt.fault = "model"
    /\ attempt.calls = <<"download", "process">>
    /\ attempt.result.error = "ModelUnavailable"
    /\ storage[OutputKey(attempt.item)] = NoBlob

\* C3: delete_blob on the source is called only if delete_source is configured
\* and the upload of the same call has returned without raising; when the
\* upload raises or delete_source is false the source is not deleted.
C3_DeleteAfterPublish ==
    attempt.n > 0 =>
        /\ (Called("delete") =>
                /\ delete_source
                /\ Called("upload")
                /\ IndexOfCall("upload") < IndexOfCall("delete")
                /\ RaisedBy(attempt) = NoExc
                /\ storage[OutputKey(attempt.item)] = attempt.uploaded)
        /\ (RaisedBy(attempt) = "UploadFailed" \/ ~delete_source =>
                /\ ~Called("delete")
                /\ storage[Key(attempt.item)] = attempt.pre_source)

\* C3, reached: the source deleted after the output was published
C3_Witness ==
    /\ attempt.n > 0
    /\ delete_source
    /\ attempt.calls = <<"download", "process", "upload", "delete">>
    /\ attempt.delete_ok
    /\ storage[Key(attempt.item)] = NoBlob
    /\ storage[OutputKey(attempt.item)] = Wav(attempt.pre_source)

-----------------------------------------------------------------------------
(* Properties of QueueListener.process_messages *)

\* the loop body of the current cycle has been through message id
Handled(id) == q_cycle[id].verdict # "none"

\* message id was deleted without any Worker call
Rejected(id) ==
    /\ q_cycle[id].verdict = "rejected"
    /\ q_cycle[id].invoked = 0
    /\ q_cycle[id].counted = 0
    /\ q_cycle[id].deletes = 1
    /\ (q_cycle[id].ack = "ok" => queue[id] = "deleted")

\* message id went to the Worker, once
Dispatched(id) ==
    /\ q_cycle[id].verdict \in {"success", "failure"}
    /\ q_cycle[id].invoked = 1
    /\ q_cycle[id].counted = 1

\* creation events whose subject names another container, another folder
OutsideEvents == {"ev_other_container", "ev_outside_prefix"}

\* minimal envelopes that name another container, another folder
OutsideMinimal == {"min_other_container", "min_outside_prefix"}

\* C4, as stated: a message that references an item outside the configured
\* source container or prefix is deleted without a Worker call and with the
\* counters unchanged, whichever of the two envelopes it is.
C4_AsStated ==
    \A id \in OutsideEvents \cup OutsideMinimal : Handled(id) => Rejected(id)

\* C4, amended: a creation-event message that references an item outside the
\* configured source container or prefix is deleted without a Worker call and
\* with the counters unchanged; a minimal {container, blob} envelope is not
\* filtered by location and is dispatched to the Worker.
C4_OutsideEventsRejected ==
    /\ \A id \in OutsideEvents : Handled(id) => Rejected(id)
    /\ \A id \in OutsideMinimal : Handled(id) => Dispatched(id)

\* C4, reached: a creation event for another folder deleted with no Worker call
C4_Witness ==
    /\ Rejected("ev_outside_prefix")
    /\ queue["ev_outside_prefix"] = "deleted"
    /\ processed_count["queue_listener"] + error_count["queue_listener"] = 0

\* unparseable; neither shape; an event of another type; an unsupported
\* extension in a creation event, in a minimal envelope
NotWork == {"not_json", "min_a_decodable", "json_other", "ev_deleted", "ev_txt"}

\* C5, as stated: a message that is unparseable, matches neither shape, is an
\* event of another type than blob-created or names an unsupported extension
\* is deleted in the cycle that received it, without a Worker call.
C5_AsStated ==
    \A id \in NotWork \cup {"min_txt"} : Handled(id) => Rejected(id)

\* C5, amended: a message that is unparseable, matches neither shape, is an
\* event of another type than blob-created, or is a creation event that names an
\* unsupported extension, is deleted in the cycle that received it without a
\* Worker call; a minimal envelope is dispatched whatever its extension.
C5_NotWorkRejected ==
    /\ \A id \in NotWork : Handled(id) => Rejected(id)
    /\ Handled("min_txt") => Dispatched("min_txt")

\* C5, reached: a creation event for a .txt and a non-JSON message deleted
\* with no Worker call
C5_Witness ==
    /\ Rejected("ev_txt")
    /\ queue["ev_txt"] = "deleted"
    /\ Rejected("not_json")

\* C6: a message dispatched to the Worker gets its delete_message call if and
\* only if the Worker returned success=True (and leaves the queue when the call
\* is accepted); after success=False it is never deleted and stays in the queue,
\* hidden until the visibility timeout.
C6_AckIffSuccess ==
    \A id \in MsgIds :
        q_cycle[id].verdict \in {"success", "failure"} =>
            /\ (q_cycle[id].deletes = 1 <=> q_cycle[id].verdict = "success")
            /\ (q_cycle[id].verdict = "success" /\ q_cycle[id].ack = "ok"
                    => queue[id] = "deleted")
            /\ (q_cycle[id].verdict = "failure" =>
                    /\ q_cycle[id].deletes = 0
                    /\ queue[id] \in {"hidden", "visible"})

\* C6, reached: a message whose handling failed is visible again
C6_Witness ==
    \E id \in MsgIds :
        /\ q_cycle[id].verdict = "failure"
        /\ q_cycle[id].invoked = 1
        /\ queue[id] = "visible"

\* C7, as stated: when a message is delivered again after an earlier handling
\* of it succeeded, the handling (with no fault of the collaborators) succeeds
\* again, leaves the same bytes under the same destination name and is followed
\* by the delete of the message, whatever delete_source is.
C7_AsStated ==
    \A id \in MsgIds :
        q_hist[id].succeeded /\ q_hist[id].redo # "none" =>
            /\ q_hist[id].redo = "success"
            /\ q_hist[id].redo_out = q_hist[id].out
            /\ q_hist[id].redo_ack

\* C7 where the code meets it: with the source kept (delete_source false)
C7_SafeWhenSourceKept == ~delete_source => C7_AsStated

\* C7, reached: a message handled with success a second time
C7_Redelivered ==
    \E id \in MsgIds : q_hist[id].succeeded /\ q_hist[id].redo = "success"

\* C8: in one cycle each received message gets at most one Worker call and at
\* most one delete_message call, a message not received gets none, and at the
\* end of the cycle each received message is either gone from the queue (its
\* one delete accepted) or still in it (no delete, or the delete raised).
C8_AtMostOnce ==
    \A id \in MsgIds :
        /\ q_cycle[id].invoked <= 1
        /\ q_cycle[id].deletes <= 1
        /\ (~q_cycle[id].received => q_cycle[id].invoked = 0 /\ q_cycle[id].deletes = 0)
        /\ (q_pc = "sleep" /\ q_cycle[id].received =>
                \/ /\ queue[id] = "deleted"
                   /\ q_cycle[id].deletes = 1
                   /\ q_cycle[id].ack = "ok"
                \/ /\ queue[id] \in {"hidden", "visible"}
                   /\ (q_cycle[id].deletes = 0 \/ q_cycle[id].ack = "raised"))

\* C8, reached: a cycle of two messages ends with one acknowledged and one left
C8_Witness ==
    /\ q_pc = "sleep"
    /\ \E id1, id2 \in MsgIds :
         /\ q_cycle[id1].received /\ q_cycle[id2].received
         /\ queue[id1] = "deleted" /\ q_cycle[id1].invoked = 1
         /\ queue[id2] = "hidden" /\ q_cycle[id2].verdict = "failure"

-----------------------------------------------------------------------------
(* Properties of PollingListener.scan_and_process *)

\* C9: a path whose handling failed is not in the handled set, and when a scan
\* meets a path whose latest handling failed it dispatches it to the Worker.
C9_FailedRetried ==
    /\ p_hist.failed \cap p_processed = {}
    /\ (p_hist.last.was_failed => p_hist.last.kind = "dispatched")

\* C9, reached: a scan dispatches a path whose earlier handling failed
C9_Witness ==
    /\ p_hist.last.was_failed
    /\ p_hist.last.kind = "dispatched"
    /\ attempt.worker = "polling_listener"
    /\ full_path(attempt.item) = p_hist.last.path
    /\ error_count["polling_listener"] >= 1

\* C10: a scan does not dispatch a path that was handled with success since
\* the handled set was last cleared: it skips it.
C10_HandledNotRedispatched ==
    /\ (p_hist.last.kind = "dispatched" => ~p_hist.last.was_succ)
    /\ (p_hist.last.was_succ => p_hist.last.kind = "skipped")

\* C10, reached: a scan skips a path handled with success
C10_Witness ==
    /\ p_hist.last.kind = "skipped"
    /\ p_hist.last.was_succ
    /\ processed_count["polling_listener"] >= 1

\* the clear is within the bounds: a path handled with success is dispatched
\* again after it
ClearedThenRedispatched ==
    /\ p_hist.last.kind = "dispatched"
    /\ processed_count["polling_listener"] = MaxPollAttempts
    /\ p_processed = {full_path(ItemA)}

\* the step is a per-item step of scan_and_process that went to the Worker
PollItemStep ==
    /\ attempt'.n = attempt.n + 1
    /\ attempt'.worker = "polling_listener"

\* the handled set with the path of the step's item added when it succeeded
WithHandled ==
    IF attempt'.result.success
    THEN p_processed \cup {full_path(attempt'.item)}
    ELSE p_processed

\* C11: the handled set never holds more paths than the threshold after a
\* per-item step of scan_and_process; the step in which it would exceed the
\* threshold leaves it empty, any other per-item step leaves it with exactly
\* the path of a succeeded item added, and no other step changes it.
C11_HandledSetBounded ==
    /\ [](Cardinality(p_processed) <= ClearThreshold)
    /\ [][IF PollItemStep
          THEN IF Cardinality(WithHandled) > ClearThreshold
               THEN p_processed' = {}
               ELSE p_processed' = WithHandled
          ELSE p_processed' = p_processed]_vars

\* C11, reached: the success that would have taken the set past the threshold
\* left it empty
C11_Witness ==
    /\ attempt.worker = "polling_listener"
    /\ attempt.result.success
    /\ processed_count["polling_listener"] = ClearThreshold + 1
    /\ p_processed = {}

-----------------------------------------------------------------------------
(* Properties of the two run loops *)

\* the step is a Worker call of listener w that returned a failure
FailureStep(w) ==
    /\ attempt'.n = attempt.n + 1
    /\ attempt'.worker = w
    /\ ~attempt'.result.success

\* a delete_message call of the current cycle raised
AckRaised == \E id \in MsgIds : q_cycle[id].ack = "raised"

\* C12: a failure returned by the Worker for one item leaves the loop over the
\* batch (the scan) at its next item with the rest of the items still to come;
\* a cycle is left for the sleep only with every item iterated, or by an
\* exception of receive, list or acknowledge, which run catches; the sleep is
\* followed by the loop condition, and run ends only on that condition with
\* _running false.
C12_FailureDoesNotHalt ==
    /\ [][FailureStep("queue_listener") =>
            /\ q_batch' = Tail(q_batch)
            /\ q_pc' = "dispatch"
            /\ q_running' = q_running]_vars
    /\ [][FailureStep("polling_listener") =>
            /\ p_blobs' = Tail(p_blobs)
            /\ p_pc' = "dispatch"
            /\ p_running' = p_running]_vars
    /\ [](q_pc = "sleep" =>
            \A id \in MsgIds :
                q_cycle[id].received /\ ~Handled(id) => AckRaised)
    /\ [][q_pc = "dispatch" /\ q_pc' # "dispatch" =>
            /\ q_pc' = "sleep"
            /\ (q_batch = <<>> \/ AckRaised')]_vars
    /\ [][p_pc = "dispatch" /\ p_pc' # "dispatch" =>
            /\ p_pc' = "sleep"
            /\ p_blobs = <<>>]_vars
    /\ [][q_pc = "sleep" /\ q_pc' # "sleep" => q_pc' = "loop"]_vars
    /\ [][p_pc = "sleep" /\ p_pc' # "sleep" => p_pc' = "loop"]_vars
    /\ [][q_pc' = "done" /\ q_pc # "done" => q_pc = "loop" /\ ~q_running]_vars
    /\ [][p_pc' = "done" /\ p_pc # "done" => p_pc = "loop" /\ ~p_running]_vars

\* C12, reached: in one batch the first message failed and the second was
\* dispatched and succeeded; the cycle ended and the loop is still running
C12_Witness ==
    /\ q_cycle["ev_a"].verdict = "failure"
    /\ q_cycle["min_a"].verdict = "success"
    /\ q_pc = "sleep"
    /\ q_running

-----------------------------------------------------------------------------
(* Properties of stop() and of the lifespan *)

\* the step starts a cycle: the receive of line 215, the list of line 287
QueueCycleStart == q_pc = "loop" /\ q_pc' \in {"dispatch", "sleep"}
PollCycleStart == p_pc = "loop" /\ p_pc' \in {"dispatch", "sleep"}

\* the step is a stop() call on its own (not the shutdown, which also cancels)
QueueStopOnly == life'.q_stop # life.q_stop /\ life'.phase = life.phase
PollStopOnly == life'.p_stop # life.p_stop /\ life'.phase = life.phase

\* a stop() call leaves the cycle in flight as it is: its remaining items are
\* still to be iterated
InFlightKept ==
    /\ [][QueueStopOnly => q_batch' = q_batch /\ q_pc' = q_pc]_vars
    /\ [][PollStopOnly => p_blobs' = p_blobs /\ p_pc' = p_pc]_vars

\* C13, as stated: once stop() has been called on a listener, whether before
\* run's first step, during a cycle or during the sleep, the listener starts
\* no further cycle; the call leaves the items of the cycle in flight to be
\* dispatched.
C13_AsStated ==
    /\ [][life.q_stop # "no" => ~QueueCycleStart]_vars
    /\ [][life.p_stop # "no" => ~PollCycleStart]_vars
    /\ InFlightKept

\* C13 where the code meets it: a stop() call that fell after run's first step
C13_StopAfterRunBegan ==
    /\ [][life.q_stop = "after_run_began" => ~QueueCycleStart]_vars
    /\ [][life.p_stop = "after_run_began" => ~PollCycleStart]_vars
    /\ InFlightKept

\* C13, reached: stop() was called before run's first step and the listener
\* is in a cycle
C13_LostStop ==
    /\ life.q_stop = "before_run"
    /\ q_running
    /\ q_pc = "dispatch"
    /\ q_batch # <<>>

\* the run of a listener has begun (its task has had its first step)
QueueRunBegun == q_pc # "init"
PollRunBegun == p_pc # "init"

\* the listeners the lifespan has created a background task for
TasksCreated == {l \in Workers : life.task = l}

\* C15, as stated: for every configured processing mode, after startup exactly
\* one of QueueListener.run and PollingListener.run has been started, and
\* never both.
C15_AsStated ==
    /\ life.phase # "startup" => Cardinality(TasksCreated) = 1
    /\ ~(QueueRunBegun /\ PollRunBegun)

\* C15, amended: never both; after startup the task of QueueListener.run
\* exists exactly in mode "queue", the task of PollingListener.run exactly in
\* mode "polling", and in mode "manual" there is no task and neither run ever
\* begins; a run begins only as the task the lifespan created.
C15_AtMostOneStrategy ==
    /\ ~(QueueRunBegun /\ PollRunBegun)
    /\ Cardinality(TasksCreated) <= 1
    /\ (life.phase # "startup" =>
            /\ (life.task = "queue_listener" <=> processing_mode = "queue")
            /\ (life.task = "polling_listener" <=> processing_mode = "polling")
            /\ (life.task = "none" <=> processing_mode = "manual"))
    /\ (QueueRunBegun => life.task = "queue_listener")
    /\ (PollRunBegun => life.task = "polling_listener")
    /\ (processing_mode = "manual" => ~QueueRunBegun /\ ~PollRunBegun)

\* C15, reached: polling mode, the polling listener is in a scan and the queue
\* listener has never begun
C15_Witness ==
    /\ processing_mode = "polling"
    /\ life.phase = "serving"
    /\ p_pc = "dispatch"
    /\ p_running
    /\ q_pc = "init"

\* C15, reached in mode "manual": the service is serving with no listener
C15_ManualNoListener ==
    /\ processing_mode = "manual"
    /\ life.phase = "serving"
    /\ life.task = "none"

-----------------------------------------------------------------------------
(* Properties of the handling of a failed decode *)

\* C14, as stated: an item whose decode failed (UnsupportedFormat) is not
\* dispatched to the Worker again, by the queue listener or by the polling
\* listener.
C14_AsStated == ~attempt.again

\* C14, reached: the queue listener dispatches again, after the visibility
\* timeout, the message of an item that had failed to decode
C14_QueueRetriesUndecodable ==
    /\ attempt.worker = "queue_listener"
    /\ attempt.again
    /\ attempt.exc = "UnsupportedFormat"
    /\ error_count["queue_listener"] = 2

\* C14, reached: the polling listener dispatches again, in a later scan, an
\* item that had failed to decode
C14_PollRetriesUndecodable ==
    /\ attempt.worker = "polling_listener"
    /\ attempt.again
    /\ attempt.exc = "UnsupportedFormat"
    /\ error_count["polling_listener"] >= 2


-----------------------------------------------------------------------------
\* C20: for every buffer and every target level, each sample of the buffer
\* that _normalize returns has a magnitude of at most 0.99, and a buffer whose
\* samples are all zero is returned as it was, with no division by zero. (An
\* empty buffer has no samples: np.max raises ValueError for it and nothing
\* is returned.)
Returned == fn.op = "_normalize" /\ fn.returned

AllZero(data) == data # <<>> /\ \A i \in 1..Len(data) : data[i] = 0

C20_PeakLimited ==
    Returned =>
        /\ fn.out.raised = "none" =>
              /\ Len(fn.out.buffer) = Len(fn.data)
              /\ \A i \in 1..Len(fn.out.buffer) :
                     ~FracLess(PeakLimitSq, fn.out.buffer[i].sq)
        /\ AllZero(fn.data) =>
              /\ fn.out.raised = "none"
              /\ fn.out.passed
              /\ fn.out.buffer = Floats(fn.data, 1)
        /\ fn.data # <<>> => fn.out.raised = "none" /\ ~fn.out.div0

\* a buffer with a sample beyond full scale, below zero, came back limited,
\* with that sample at 0.99 exactly
C20_Witness ==
    /\ Returned
    /\ fn.out.limited
    /\ \E i \in 1..Len(fn.data) :
         /\ fn.data[i] < -AmpScale
         /\ fn.out.buffer[i] = Sample(-1, PeakLimitSq)

C20_ZeroReturned == Returned /\ AllZero(fn.data) /\ fn.out.passed


-----------------------------------------------------------------------------
\* C17: in the buffer _compress_silences returns, every speech segment is
\* there in full and in order; a gap between two consecutive segments that
\* lasts max_gap_ms or less (equality included) is there as it was; a gap
\* that lasts longer is replaced by keep_ms worth of zero samples and adds
\* its length minus that number of samples to the total removed
Compressed == fn.op = "_compress_silences" /\ fn.returned

SegLen(k) == fn.segments[k].end - fn.segments[k].start

GapLen(k) == fn.segments[k + 1].start - fn.segments[k].end

\* the gap lasts longer than max_gap_ms: GapLen / sr > max_gap_ms / 1000
GapIsLong(k) == GapLen(k) * 1000 > fn.max_gap_ms * fn.sr

KeepWorth == (fn.keep_ms * fn.sr) \div 1000

GapOut(k) == IF GapIsLong(k) THEN KeepWorth ELSE GapLen(k)

\* where segment k begins in the returned buffer
RECURSIVE OffsetOf(_)
OffsetOf(k) == IF k = 1 THEN 0 ELSE OffsetOf(k - 1) + SegLen(k - 1) + GapOut(k - 1)

RECURSIVE RemovedUpTo(_)
RemovedUpTo(k) ==
    IF k = 0 THEN 0
    ELSE RemovedUpTo(k - 1) + (IF GapIsLong(k) THEN GapLen(k) - KeepWorth ELSE 0)

C17_PerGap ==
    Compressed /\ fn.segments # <<>> =>
        LET out == fn.out.audio
            K == Len(fn.segments)
        IN  /\ Len(out) = OffsetOf(K) + SegLen(K)
            /\ \A k \in 1..K :
                  SubSeq(out, OffsetOf(k) + 1, OffsetOf(k) + SegLen(k))
                      = SubSeq(fn.audio, fn.segments[k].start + 1, fn.segments[k].end)
            /\ \A k \in 1..(K - 1) :
                  LET at == OffsetOf(k) + SegLen(k)
                  IN  IF GapIsLong(k)
                      THEN SubSeq(out, at + 1, at + KeepWorth) = Zeros(KeepWorth)
                      ELSE SubSeq(out, at + 1, at + GapLen(k))
                               = SubSeq(fn.audio, fn.segments[k].end + 1,
                                        fn.segments[k + 1].start)
            /\ fn.out.total_removed = RemovedUpTo(K - 1)
            /\ fn.out.removed_ms = TruncDiv(RemovedUpTo(K - 1) * 1000, fn.sr)

\* a call with a gap of max_gap_ms exactly, kept, and then a longer one,
\* replaced
C17_Witness ==
    /\ Compressed
    /\ Len(fn.segments) = 3
    /\ GapLen(1) > 0
    /\ GapLen(1) * 1000 = fn.max_gap_ms * fn.sr
    /\ GapIsLong(2)
    /\ fn.keep_ms > 0
    /\ fn.out.total_removed > 0


-----------------------------------------------------------------------------
\* C16: whatever the four enable flags are, the stage log of a completed run
\* holds exactly one entry per stage, in the order load, resample, mono,
\* noise reduction, speech detection, silence compression, normalization: a
\* stage that is switched off or skipped logs that it was, and no step of a
\* run takes an entry away or puts one anywhere but at the end
StageOrder ==
    <<"load", "resample", "mono", "noise_reduction", "vad",
      "silence_compression", "normalization">>

StageOfTag(tag) ==
    CASE tag.name = "loaded" -> "load"
      [] tag.name \in {"resampled", "resample"} -> "resample"
      [] tag.name \in {"normalized", "normalization"} -> "normalization"
      [] OTHER -> tag.name

StageLog(p) ==
    IF p.pc = "none" THEN <<>>
    ELSE [i \in 1..Len(p.stats.stages_completed) |->
             StageOfTag(p.stats.stages_completed[i])]

\* the stages that are behind a run at each of its positions
StagesBehind(pc) ==
    CASE pc \in {"none", "load"} -> 0
      [] pc = "resample" -> 1
      [] pc = "mono" -> 2
      [] pc = "noise" -> 3
      [] pc = "vad" -> 4
      [] pc = "silence" -> 5
      [] pc = "normalize" -> 6
      [] pc \in {"export", "done"} -> 7

C16_StageLog ==
    /\ [](pipe.pc = "done" => StageLog(pipe) = StageOrder)
    /\ [](pipe.pc \notin {"raised"} =>
             StageLog(pipe) = SubSeq(StageOrder, 1, StagesBehind(pipe.pc)))
    /\ [][\/ StageLog(pipe') = StageLog(pipe)
          \/ /\ Len(StageLog(pipe')) = Len(StageLog(pipe)) + 1
             /\ SubSeq(pipe'.stats.stages_completed, 1, Len(StageLog(pipe)))
                    = (IF pipe.pc = "none" THEN <<>>
                       ELSE pipe.stats.stages_completed)]_vars

\* a completed run with the four flags off, nothing to resample and one
\* channel: every stage after the load has logged that it did nothing
C16_Witness ==
    /\ pipe.pc = "done"
    /\ ~pipe.cfg.noise /\ ~pipe.cfg.vad /\ ~pipe.cfg.silence /\ ~pipe.cfg.normalize
    /\ pipe.file.sr = pipe.cfg.target_sample_rate
    /\ pipe.file.channels = 1
    /\ Len(pipe.stats.stages_completed) = 7
    /\ \A i \in 2..7 : pipe.stats.stages_completed[i].text \in {"skipped", "disabled"}

\* and one with the four flags on
C16_AllEnabled ==
    /\ pipe.pc = "done"
    /\ pipe.cfg.noise /\ pipe.cfg.vad /\ pipe.cfg.silence /\ pipe.cfg.normalize
    /\ \A i \in 2..7 : pipe.stats.stages_completed[i].text \notin {"skipped", "disabled"}


-----------------------------------------------------------------------------
\* C18: in every completed run the durations are not negative, and when
\* silence compression ran, silence_removed_ms is at least 0 and
\* final_duration_ms is at most original_duration_ms, for every segment list
\* and every pair max_gap_ms, keep_ms the configuration accepts
SilenceRan ==
    /\ pipe.pc = "done"
    /\ pipe.cfg.silence
    /\ pipe.speech_timestamps # <<>>

C18_AsStated ==
    pipe.pc = "done" =>
        /\ pipe.stats.original_duration_ms >= 0
        /\ pipe.stats.final_duration_ms >= 0
        /\ SilenceRan =>
              /\ pipe.stats.silence_removed_ms >= 0
              /\ pipe.stats.final_duration_ms <= pipe.stats.original_duration_ms

\* a run where nothing but the silence stage touches the length (one
\* channel, nothing to resample, a rate Silero takes as it is)
OnlySilenceResizes ==
    /\ pipe.file.channels = 1
    /\ pipe.file.sr = pipe.cfg.target_sample_rate
    /\ pipe.cfg.target_sample_rate \in SileroRates

\* with keep_ms above max_gap_ms, a gap between the two is replaced by more
\* zeros than it had samples: the count of removed milliseconds is negative
\* and the audio comes out longer than it went in
C18_Lengthened ==
    /\ SilenceRan
    /\ OnlySilenceResizes
    /\ pipe.cfg.gap.keep_ms > pipe.cfg.gap.max_gap_ms
    /\ pipe.stats.silence_removed_ms < 0
    /\ pipe.stats.final_duration_ms > pipe.stats.original_duration_ms

\* with keep_ms at most max_gap_ms, such a run is as the claim says
C18_WhenKeepWithinGap ==
    SilenceRan /\ OnlySilenceResizes
        /\ pipe.cfg.gap.keep_ms <= pipe.cfg.gap.max_gap_ms =>
            /\ pipe.stats.silence_removed_ms >= 0
            /\ pipe.stats.final_duration_ms <= pipe.stats.original_duration_ms

-----------------------------------------------------------------------------
\* C19: the compression ratio of every completed run with
\* original_duration_ms > 0 is in [0, 1], runs that only resample included
C19_AsStated ==
    pipe.pc = "done" /\ pipe.stats.original_duration_ms > 0 =>
        /\ compression_ratio(pipe.stats).num >= 0
        /\ compression_ratio(pipe.stats).num <= compression_ratio(pipe.stats).den

AllStagesOff ==
    ~pipe.cfg.noise /\ ~pipe.cfg.vad /\ ~pipe.cfg.silence /\ ~pipe.cfg.normalize

\* a run that only resamples one channel: 88 samples at 44100 Hz are 1 ms
\* after truncation, the 32 samples they become at 16000 Hz are 2 ms, and
\* the ratio is 1 - 2/1
C19_ResampleOnly ==
    /\ pipe.pc = "done"
    /\ AllStagesOff
    /\ pipe.file.channels = 1
    /\ pipe.file.sr # pipe.cfg.target_sample_rate
    /\ pipe.stats.original_duration_ms = 1
    /\ pipe.stats.final_duration_ms = 2
    /\ compression_ratio(pipe.stats) = [num |-> -1, den |-> 1]

\* the ratio is never above 1: no duration is negative
C19_AtMostOne ==
    pipe.pc = "done" =>
        compression_ratio(pipe.stats).num <= compression_ratio(pipe.stats).den

\* and it is in [0, 1] for one channel when nothing is resampled and keep_ms
\* is at most max_gap_ms
C19_WithoutResampling ==
    pipe.pc = "done" /\ OnlySilenceResizes
        /\ pipe.cfg.gap.keep_ms <= pipe.cfg.gap.max_gap_ms =>
            compression_ratio(pipe.stats).num >= 0


-----------------------------------------------------------------------------
(* Properties of the Worker's counters and results *)

\* C24: every call of process_blob that returns adds exactly 1 to exactly one
\* counter of its Worker, processed_count when its result has success=True
\* and error_count when it has success=False, and leaves the other as it
\* was; no counter ever goes down; the two counters of a Worker add up to the
\* number of calls it has completed
CompletedCalls(w) == IF w = attempt.worker THEN attempt.n ELSE 0

C24_CountersExact ==
    /\ [](attempt.n > 0 =>
            /\ attempt.returned
            /\ IF attempt.result.success
               THEN /\ processed_count[attempt.worker] = attempt.pre_processed + 1
                    /\ error_count[attempt.worker] = attempt.pre_error
               ELSE /\ processed_count[attempt.worker] = attempt.pre_processed
                    /\ error_count[attempt.worker] = attempt.pre_error + 1)
    /\ [](\A w \in Workers :
            processed_count[w] + error_count[w] = CompletedCalls(w))
    /\ [][\A w \in Workers :
            /\ processed_count'[w] >= processed_count[w]
            /\ error_count'[w] >= error_count[w]
            /\ (processed_count'[w] + error_count'[w])
                   - (processed_count[w] + error_count[w])
                   = (IF attempt'.n # attempt.n /\ attempt'.worker = w THEN 1 ELSE 0)]_vars

\* a Worker after one call that succeeded and one that failed
C24_Witness ==
    /\ attempt.n = 2
    /\ processed_count[attempt.worker] = 1
    /\ error_count[attempt.worker] = 1
    /\ ~attempt.result.success


\* C25: a result has one of two shapes: success=True with output_path and
\* stats set and no error, or success=False with an error and neither
\* output_path nor stats; success=True is only returned by a call whose
\* upload_blob call has returned
C25_ResultShapes ==
    attempt.n > 0 =>
        LET result == attempt.result
        IN  \/ /\ result.success
               /\ result.output_path # NoPath
               /\ result.has_stats
               /\ result.error = "None"
               /\ Called("upload")
               /\ attempt.fault # "upload"
               /\ storage[OutputKey(attempt.item)] = attempt.uploaded
            \/ /\ ~result.success
               /\ result.output_path = NoPath
               /\ ~result.has_stats
               /\ result.error \notin {"None", NoExc}

\* a call whose pipeline run had returned its stats and whose upload raised:
\* the result is a failure with the message and nothing else
C25_Witness ==
    /\ attempt.n > 0
    /\ attempt.calls = <<"download", "process", "upload">>
    /\ attempt.processed # "none"
    /\ attempt.result = ProcessingResult(FALSE, full_path(attempt.item), NoPath,
                                         FALSE, "UploadFailed")


\* C28: with delete_source configured, a delete that fails after the output
\* was published is answered by delete_blob with False and not raised:
\* process_blob returns success=True and adds 1 to processed_count, the
\* listener issues delete_message for the message (push) or adds the path to
\* its handled set (pull), and the source item is where it was
DeleteFailedStep ==
    /\ attempt'.n = attempt.n + 1
    /\ delete_source
    /\ attempt'.fault = "delete"
    /\ attempt'.calls = <<"download", "process", "upload", "delete">>

C28_DeleteBestEffort ==
    [][DeleteFailedStep =>
          /\ ~attempt'.delete_ok
          /\ attempt'.returned /\ ~attempt'.raised
          /\ attempt'.result.success
          /\ processed_count'[attempt'.worker] = processed_count[attempt'.worker] + 1
          /\ error_count' = error_count
          /\ storage'[OutputKey(attempt'.item)] = attempt'.uploaded
          /\ storage'[Key(attempt'.item)] = storage[Key(attempt'.item)]
          /\ storage'[Key(attempt'.item)] # NoBlob
          /\ attempt'.worker = "queue_listener" =>
                LET id == Head(q_batch)
                IN  /\ q_cycle'[id].deletes = q_cycle[id].deletes + 1
                    /\ q_cycle'[id].ack = "ok" => queue'[id] = "deleted"
          /\ attempt'.worker = "polling_listener" =>
                p_processed' = Cleanup(p_processed \cup {full_path(attempt'.item)})]_vars

\* a call whose delete failed: a success with the source still in place
C28_Witness ==
    /\ attempt.n > 0
    /\ delete_source
    /\ attempt.fault = "delete"
    /\ attempt.calls = <<"download", "process", "upload", "delete">>
    /\ ~attempt.delete_ok
    /\ attempt.result.success
    /\ storage[Key(attempt.item)] = attempt.pre_source
    /\ attempt.pre_source # NoBlob


(***************************************************************************)
(* Accounting of the samples silence compression drops                     *)
(***************************************************************************)

\* C26: for every ordered list of segments that do not overlap, those whose
\* first segment starts after sample 0 or whose last segment ends before the
\* end of the buffer included, the buffer _compress_silences returns is as
\* long as its input less the removed samples it counted
C26_AsStated ==
    Compressed /\ fn.segments # <<>> =>
        Len(fn.out.audio) = Len(fn.audio) - fn.out.total_removed

\* the samples before the first segment and after the last one are left out
\* of the output and of the count
C26_Uncounted ==
    Compressed /\ fn.segments # <<>> =>
        Len(fn.out.audio) = Len(fn.audio) - fn.out.total_removed
                              - fn.segments[1].start
                              - (Len(fn.audio) - fn.segments[Len(fn.segments)].end)

\* a call with one segment inside the buffer: nothing is counted as removed
\* and the output is shorter than the input
C26_EdgesDropped ==
    /\ Compressed
    /\ Len(fn.segments) = 1
    /\ fn.segments[1].start > 0
    /\ fn.segments[1].end < Len(fn.audio)
    /\ fn.out.total_removed = 0
    /\ fn.out.removed_ms = 0
    /\ Len(fn.out.audio) < Len(fn.audio)


(***************************************************************************)
(* A failure inside noise reduction                                        *)
(***************************************************************************)

\* the denoiser raised in this run
NoiseFailed == pipe.pc # "none" /\ pipe.noise = "failed"

\* C22: when the denoiser raises, _reduce_noise returns the buffer it was
\* given, the run goes on with speech detection and the later stages, the
\* only exceptions out of such a run are those of the later stages (the
\* speech model not loading, an empty buffer in normalization), a run that
\* meets neither returns its output, and the Worker reports the returned
\* run as a success
C22_NoiseFailureAbsorbed ==
    /\ [][pipe.pc = "noise" /\ pipe'.noise = "failed" =>
             /\ pipe'.audio = pipe.audio
             /\ pipe'.pc = "vad"
             /\ pipe'.raised = "none"]_vars
    /\ [](NoiseFailed /\ pipe.pc = "raised" =>
             \/ pipe.raised = "ModelUnavailable" /\ pipe.cfg.vad
             \/ /\ pipe.raised = "ValueError"
                /\ pipe.cfg.normalize
                /\ pipe.audio.data = <<>>)
    /\ [](NoiseFailed /\ pipe.pc = "done" =>
             /\ pipe.wav.sr = pipe.cfg.target_sample_rate
             /\ pipe.wav.frames = Len(pipe.audio.data)
             /\ Len(pipe.stats.stages_completed) = 7)
    /\ [](NoiseFailed /\ pipe.result # NoResult =>
             pipe.result.success = (pipe.pc = "done"))

\* a run whose denoiser raised, returned with output and reported as success
C22_Witness ==
    /\ NoiseFailed
    /\ pipe.pc = "done"
    /\ pipe.wav.frames > 0
    /\ pipe.cfg.vad /\ pipe.cfg.silence /\ pipe.cfg.normalize
    /\ pipe.result.success
    /\ pipe.result.has_stats

\* C27: when the denoiser raises, the noise reduction entry of the stage log
\* and the noise_reduced flag say that noise reduction did not run:
\* noise_reduced is true only for runs in which denoising was applied
NoiseTag(p) ==
    LET at == {i \in 1..Len(p.stats.stages_completed) :
                  p.stats.stages_completed[i].name = "noise_reduction"}
    IN  {p.stats.stages_completed[i].text : i \in at}

\* the run is past its noise reduction stage
PastNoise ==
    /\ pipe.pc \notin {"none", "load", "resample", "mono", "noise"}
    /\ Len(pipe.stats.stages_completed) >= 4

C27_AsStated ==
    PastNoise =>
        /\ pipe.stats.noise_reduced => pipe.noise = "reduced"
        /\ pipe.noise = "failed" => "applied" \notin NoiseTag(pipe)

\* what the stats of a run past the stage say: the flag and the entry follow
\* the setting alone, whatever the denoiser did
C27_FollowsSetting ==
    PastNoise =>
        /\ pipe.stats.noise_reduced = pipe.cfg.noise
        /\ NoiseTag(pipe) = {IF pipe.cfg.noise THEN "applied" ELSE "disabled"}

\* a returned run whose denoiser raised and whose stats say it was applied
C27_FailedShownApplied ==
    /\ pipe.pc = "done"
    /\ pipe.noise = "failed"
    /\ pipe.stats.noise_reduced
    /\ NoiseTag(pipe) = {"applied"}


(***************************************************************************)
(* The output of process                                                   *)
(***************************************************************************)

\* the samples of a written file are integers of 16 bits
InInt16Range(wav) ==
    \A i \in 1..Len(wav.samples) : wav.samples[i] \in -32768..32767

\* C21: for every decodable input the output of process is single-channel
\* 16-bit PCM at the configured target rate, every encoded sample is in the
\* int16 range, and the output holds one sample per time instant of the
\* processed audio: as many samples as the audio had frames when it entered
\* the mono stage, in a run that compresses no silence
C21_AsStated ==
    pipe.pc = "done" =>
        /\ pipe.wav.channels = 1
        /\ pipe.wav.subtype = "PCM_16"
        /\ pipe.wav.sr = pipe.cfg.target_sample_rate
        /\ InInt16Range(pipe.wav)
        /\ ~pipe.cfg.silence => pipe.wav.frames = pipe.rows

\* what holds for every decodable input: the container format, the rate
\* written and the range of the encoded samples
C21_Format ==
    pipe.pc = "done" =>
        /\ pipe.wav.channels = 1
        /\ pipe.wav.subtype = "PCM_16"
        /\ pipe.wav.sr = pipe.cfg.target_sample_rate
        /\ Len(pipe.wav.samples) = pipe.wav.frames
        /\ InInt16Range(pipe.wav)

\* one sample per frame holds for one channel and for more than two frames
C21_OnePerFrameAboveTwo ==
    pipe.pc = "done" /\ ~pipe.cfg.silence
        /\ (pipe.file.channels = 1 \/ pipe.rows > 2) =>
        pipe.wav.frames = pipe.rows

\* a stereo file of one frame written as two samples
C21_ChannelsAsSamples ==
    /\ pipe.pc = "done"
    /\ pipe.file.channels = 2 /\ pipe.file.frames = 1
    /\ pipe.rows = 1
    /\ pipe.wav.frames = 2

\* a sample beyond full scale written at the end of the int16 range
C21_Clipped ==
    /\ pipe.pc = "done"
    /\ pipe.file.scale = 6
    /\ ~pipe.cfg.normalize /\ ~pipe.cfg.noise
    /\ pipe.wav.samples = <<19660, 32767>>


(***************************************************************************)
(* Loading of the speech model under concurrent first use                  *)
(***************************************************************************)

\* C23: the speech model is loaded at most once per process, also when two
\* threads make their first detect_speech call at the same time: in every
\* interleaving of _load_model the load runs once and every caller uses the
\* same model
C23_AsStated ==
    /\ vad.loads <= 1
    /\ Cardinality(vad.used) <= 1

\* calls made one after the other load once and share the model
C23_WhenNotOverlapping ==
    ~vad.overlap =>
        /\ vad.loads <= 1
        /\ Cardinality(vad.used) <= 1
        /\ "TypeError" \notin vad.failed

\* two first calls that both passed the check: two loads, and the two callers
\* used different models
C23_LoadedTwice ==
    /\ vad.overlap
    /\ vad.loads = 2
    /\ vad.used = {1, 2}
    /\ vad.failed = {}
    /\ \A th \in VadThreads : vad.t[th].calls = 1

\* a caller that found the model set and the function not yet
C23_HalfAssigned ==
    /\ vad.loads = 1
    /\ "TypeError" \in vad.failed


(***************************************************************************)
(* The writers of a Worker's counters                                      *)
(***************************************************************************)

\* the callers that are inside process_blob of the module-level worker
InFlight == {req \in Requests : api.r[req].pc # "idle"}

\* C29: no two process_blob invocations on one Worker instance, the
\* module-level worker of the manual and batch request paths included, are
\* under way at the same time, so no increment of a counter is lost: once
\* the calls have returned the counters add up to their number
C29_AsStated ==
    /\ Cardinality(InFlight) <= 1
    /\ InFlight = {} =>
          processed_count["worker"] + error_count["worker"] = api.completed

\* calls of the module-level worker that never met are all counted
C29_CountedWhenApart ==
    ~api.overlapped /\ InFlight = {} =>
        processed_count["worker"] + error_count["worker"] = api.completed

\* a call from the handler and one from the background task, both returned
\* with success, and a processed_count of 1
C29_LostIncrement ==
    /\ InFlight = {}
    /\ api.completed = 2
    /\ \A req \in Requests : api.r[req].calls = 1 /\ api.r[req].exc = NoExc
    /\ processed_count["worker"] = 1
    /\ error_count["worker"] = 0

(***************************************************************************)
(* The counters GET /stats reports                                         *)
(***************************************************************************)

\* C30: the counters the stats surface reports are those of the Worker of
\* the active ingestion strategy: after any attempts of that strategy,
\* processed_count and error_count of the response equal the numbers of its
\* successful and failed attempts
C30_AsStated == api.stats # NoStats => api.stats = api.strategy

\* no step of a listener changes the counters GET /stats reads: with no
\* request calling the module-level worker every response carries zeros
C30_ReadsModuleWorker ==
    /\ CountersOf("worker") = [processed_count |-> 0, error_count |-> 0]
    /\ api.stats \in {NoStats, CountersOf("worker")}

\* a response of zeros after the listener's Worker counted a success
C30_ZeroAfterSuccess ==
    /\ api.stats = [processed_count |-> 0, error_count |-> 0]
    /\ api.strategy.processed_count >= 1
    /\ life.task \in {"queue_listener", "polling_listener"}

\* a response that carries the success of a manual request
C30_ManualCounted ==
    /\ api.stats = [processed_count |-> 1, error_count |-> 0]
    /\ api.completed = 1
    /\ life.task = "none"


(***************************************************************************)
(* The destination name                                                    *)
(***************************************************************************)

\* the destination prefix, the stem of incoming/a.wav and the extension
ProcessedA == <<"processed", "/", "a", ".", "wav">>

\* C31: the destination name is the destination prefix, the stem of the
\* item's filename and .wav, and depends on nothing else of the item: items
\* that differ in directory or in extension only get one destination name,
\* and every publish stores its output under that name whatever was there,
\* so the later publish replaces the earlier output
C31_NameFromStemOnly ==
    /\ [](/\ output_name(ItemA) = ProcessedA
          /\ output_name(ItemSub) = ProcessedA
          /\ output_name(ItemExt) = ProcessedA
          /\ \A b1, b2 \in SourceItems :
                stem(b1) = stem(b2) <=> OutputKey(b1) = OutputKey(b2))
    /\ [][attempt'.n # attempt.n /\ attempt'.result.success =>
             LET b == attempt'.item
             IN  /\ attempt'.result.output_path
                       = <<container_output, "/">> \o output_name(b)
                 /\ storage'[OutputKey(b)] = Wav(storage[Key(b)])]_vars

\* incoming/a.wav was published (its source is deleted, which follows the
\* publish only), and then the item of the same stem in incoming/sub: the
\* output under processed/a.wav is that of the later one
C31_Witness ==
    /\ attempt.n >= 2
    /\ attempt.item = ItemSub
    /\ attempt.result.success
    /\ delete_source
    /\ storage[Key(ItemA)] = NoBlob
    /\ storage[<<container_output, ProcessedA>>] = "wavB"
    /\ Wav("pcmA") # "wavB"


(***************************************************************************)
(* Silence compression without segments                                    *)
(***************************************************************************)

\* C32: when speech detection is enabled and returns no segment, the
\* silence-compression stage does not run: the buffer goes to normalization
\* as it is, in full length, silence_removed_ms stays 0, and the stage log
\* gets its silence-compression entry, which says disabled
C32_NoSegments ==
    [][pipe.pc = "silence" /\ pipe.cfg.vad /\ pipe.speech_timestamps = <<>>
          /\ pipe' # pipe =>
          /\ pipe'.pc = "normalize"
          /\ pipe'.audio = pipe.audio
          /\ pipe'.sr = pipe.sr
          /\ pipe.stats.silence_removed_ms = 0
          /\ pipe'.stats.silence_removed_ms = 0
          /\ pipe'.stats.stages_completed =
                 Append(pipe.stats.stages_completed,
                        Tag("silence_compression", <<>>, "disabled"))]_vars

\* a returned run with every stage enabled in which no speech was found: all
\* 64 samples are in the output
C32_Witness ==
    /\ pipe.pc = "done"
    /\ pipe.cfg.vad /\ pipe.cfg.silence /\ pipe.cfg.normalize /\ pipe.cfg.noise
    /\ pipe.speech_timestamps = <<>>
    /\ pipe.stats.speech_segments = 0
    /\ pipe.stats.silence_removed_ms = 0
    /\ pipe.rows = 64
    /\ pipe.wav.frames = 64
    /\ Len(pipe.stats.stages_completed) = 7



(***************************************************************************)
(* The axes of the buffer in the resample and mono stages                  *)
(***************************************************************************)

\* the time samples and the channels of a buffer as _load_audio returns it:
\* (samples,) or (samples, channels)
TimeLen(audio) == Len(audio.data)

ChannelCount(audio) ==
    IF audio.ndim = 1 THEN 1
    ELSE IF audio.data = <<>> THEN 0 ELSE Len(audio.data[1])

\* n2 samples at rate sr2 last as long as n1 samples at rate sr1, up to one
\* sample of the second: |n2 - n1 * sr2 / sr1| <= 1
SameDuration(n1, sr1, n2, sr2) ==
    /\ n2 * sr1 <= n1 * sr2 + sr1
    /\ n2 * sr1 >= n1 * sr2 - sr1

\* the resample stage taken for a file whose rate is not the target rate
Resampling ==
    /\ pipe.pc = "resample"
    /\ pipe'.pc = "mono"
    /\ pipe.sr # pipe.cfg.target_sample_rate

\* C33: for every input whose native rate differs from the target rate, of
\* any channel count, the buffer after the resample stage has the channel
\* count it had before and a time-axis length scaled by target/native, so
\* that its duration in seconds is kept up to one sample
C33_AsStated ==
    [][Resampling =>
          /\ ChannelCount(pipe'.audio) = ChannelCount(pipe.audio)
          /\ SameDuration(TimeLen(pipe.audio), pipe.sr,
                          TimeLen(pipe'.audio), pipe'.sr)]_vars

\* a stereo file of 64 frames at 44100 Hz resampled to 16000 Hz: still 64
\* frames, now of one channel, and taken for audio at 16000 Hz
C33_ChannelAxisResampled ==
    /\ pipe.pc = "mono"
    /\ pipe.file.channels = 2 /\ pipe.file.frames = 64
    /\ pipe.file.sr = 44100 /\ pipe.sr = 16000
    /\ TimeLen(pipe.audio) = 64
    /\ ChannelCount(pipe.audio) = 1

\* with one channel the stage is as the claim says
C33_OneChannel ==
    [][Resampling /\ pipe.file.channels = 1 =>
          /\ ChannelCount(pipe'.audio) = 1
          /\ SameDuration(TimeLen(pipe.audio), pipe.sr,
                          TimeLen(pipe'.audio), pipe'.sr)]_vars

\* with more channels the number of frames is never changed by the stage
C33_FramesKept ==
    [][Resampling /\ pipe.file.channels > 1 =>
          /\ TimeLen(pipe'.audio) = TimeLen(pipe.audio)
          /\ ChannelCount(pipe'.audio) =
                 CeilDiv(ChannelCount(pipe.audio) * pipe'.sr, pipe.sr)]_vars


\* a buffer of two or more channels and at least one frame enters the mono
\* stage and is downmixed
Downmixing ==
    /\ pipe.pc = "mono"
    /\ pipe'.pc = "noise"
    /\ pipe.audio.ndim = 2
    /\ TimeLen(pipe.audio) >= 1
    /\ ChannelCount(pipe.audio) >= 2

\* sample i of the mono buffer is the mean of the channel values of frame i
MeanOfFrame(mono, audio, i) ==
    mono.data[i] * audio.den * ChannelCount(audio) =
        Sum(audio.data[i]) * mono.den

\* C34: for every buffer of c >= 2 channels and n >= 1 time samples, n = 1
\* and n = 2 included, the downmixed buffer has exactly n samples, each the
\* mean of the c channel values at its time instant
C34_AsStated ==
    [][Downmixing =>
          /\ TimeLen(pipe'.audio) = TimeLen(pipe.audio)
          /\ \A i \in 1..TimeLen(pipe.audio) :
                 MeanOfFrame(pipe'.audio, pipe.audio, i)]_vars

\* two stereo frames (10, 30) and (20, 10) downmixed to (15, 20), the means
\* of each channel over the two frames, not to (20, 15)
C34_MeanOverTime ==
    /\ pipe.pc = "noise"
    /\ pipe.file.channels = 2 /\ pipe.file.frames = 2
    /\ pipe.file.sr = pipe.cfg.target_sample_rate
    /\ pipe.rows = 2
    /\ pipe.audio = Array1(<<30, 40>>, 2)

\* one stereo frame (10, 30) downmixed to the two samples 10 and 30
C34_OneFrame ==
    /\ pipe.pc = "noise"
    /\ pipe.file.channels = 2 /\ pipe.file.frames = 1
    /\ pipe.rows = 1
    /\ pipe.audio = Array1(<<10, 30>>, 1)

\* with more than two frames the downmix is as the claim says
C34_AboveTwoFrames ==
    [][Downmixing /\ TimeLen(pipe.audio) > 2 =>
          /\ TimeLen(pipe'.audio) = TimeLen(pipe.audio)
          /\ \A i \in 1..TimeLen(pipe.audio) :
                 MeanOfFrame(pipe'.audio, pipe.audio, i)]_vars



(***************************************************************************)
(* The segments of the speech model as indices of the pipeline buffer      *)
(***************************************************************************)

\* sample index i is the same instant in the pipeline buffer, at rate sr,
\* as in the audio the model was handed: i / sr = i / VadRate(sr)
SameInstant(i, sr) == i * VadRate(sr) = i * sr

\* the segments of detect_speech are about to be used by stage 6
SegmentsDetected == pipe.pc = "silence" /\ pipe.cfg.vad

\* C35: for every configured target rate, each segment [start, end)
\* returned by detect_speech denotes the same time interval in the pipeline
\* buffer, which silence compression slices with it, as in the audio the
\* model was fed
C35_AsStated ==
    SegmentsDetected =>
        \A k \in 1..Len(pipe.speech_timestamps) :
            /\ SameInstant(pipe.speech_timestamps[k].start, pipe.sr)
            /\ SameInstant(pipe.speech_timestamps[k].end, pipe.sr)

\* at a target rate of 32000 Hz the model is handed 64 samples at 16000 Hz
\* for a buffer of 128, finds speech in all of it, and silence compression
\* keeps samples 0..64 of the buffer: the first half of the audio
C35_HalfKept ==
    /\ pipe.pc = "normalize"
    /\ pipe.cfg.vad /\ pipe.cfg.silence
    /\ pipe.file.channels = 1
    /\ pipe.sr = 32000
    /\ pipe.rows = 128
    /\ pipe.speech_timestamps = <<[start |-> 0, end |-> 64]>>
    /\ TimeLen(pipe.audio) = 64
    /\ pipe.stats.silence_removed_ms = 0

\* at a target rate Silero takes as it is the model is handed the buffer
\* and the segments are intervals of it
C35_AtSileroRates ==
    SegmentsDetected /\ pipe.sr \in SileroRates =>
        \A k \in 1..Len(pipe.speech_timestamps) :
            /\ SameInstant(pipe.speech_timestamps[k].start, pipe.sr)
            /\ SameInstant(pipe.speech_timestamps[k].end, pipe.sr)
            /\ pipe.speech_timestamps[k].end <= TimeLen(pipe.audio)



(***************************************************************************)
(* Cooperative stop of a running listener                                  *)
(***************************************************************************)

\* stop() has been called while run is executing: run has set the flag at
\* its first step and has not returned, and the flag is cleared
QueueStopped == q_pc \in {"loop", "dispatch", "sleep"} /\ ~q_running
PollStopped == p_pc \in {"loop", "dispatch", "sleep"} /\ ~p_running

\* the order of the places of run from a cycle in flight to the return
StopRank(pc) ==
    CASE pc = "dispatch" -> 0
      [] pc = "sleep" -> 1
      [] pc = "loop" -> 2
      [] pc = "done" -> 3
      [] OTHER -> -1

\* the dispatch of a cycle ends with every item iterated, or, in the queue
\* listener, with the exception of a delete_message, which run catches
QueueDispatchEnds ==
    q_pc = "dispatch" /\ q_pc' # "dispatch" =>
        /\ q_pc' = "sleep"
        /\ q_batch' = <<>>
        /\ q_batch = <<>> \/ q_cycle'[Head(q_batch)].ack = "raised"

PollDispatchEnds ==
    p_pc = "dispatch" /\ p_pc' # "dispatch" =>
        p_pc' = "sleep" /\ p_blobs = <<>>

\* C36: if stop() is called while run() is executing and every Worker
\* invocation of the current cycle returns, run finishes the dispatch of the
\* current cycle, sleeps at most one interval and returns (from a stopped
\* listener the only way on is dispatch, one sleep, the loop condition, the
\* return, and it is taken to its end); run does not return before the
\* dispatch of the current cycle has finished
C36_CooperativeStop ==
    /\ QueueStopped ~> q_pc = "done"
    /\ PollStopped ~> p_pc = "done"
    /\ [][QueueStopped =>
             /\ ~q_running'
             /\ q_pc' # q_pc => StopRank(q_pc') = StopRank(q_pc) + 1
             /\ q_batch' # q_batch => q_pc = "dispatch"
             /\ QueueDispatchEnds]_vars
    /\ [][PollStopped =>
             /\ ~p_running'
             /\ p_pc' # p_pc => StopRank(p_pc') = StopRank(p_pc) + 1
             /\ p_blobs' # p_blobs => p_pc = "dispatch" /\ p_blobs' = Tail(p_blobs)
             /\ PollDispatchEnds]_vars
    /\ [][q_pc' = "done" /\ q_pc # "done" =>
             q_pc = "loop" /\ ~q_running /\ q_batch = <<>>]_vars
    /\ [][p_pc' = "done" /\ p_pc # "done" =>
             p_pc = "loop" /\ ~p_running /\ p_blobs = <<>>]_vars

\* stop() was called on the queue listener in a cycle with messages still to
\* be dispatched and no Worker invocation made; one was made after it and run
\* has returned
C36_Witness ==
    /\ life.q_stop = "mid_cycle_uncalled"
    /\ q_pc = "done"
    /\ ~q_running
    /\ q_batch = <<>>
    /\ Total("queue_listener", processed_count, error_count) >= 1

=============================================================================
